---- MODULE Spec2Model ----
(***************************************************************************)
(* Model of the arXiv ingestion pipeline of DailyArxivPaper:               *)
(*   - the relational store (five tables and the authors sequence),        *)
(*   - insert_paper_data, the single-record apply (period_fetcher.py),     *)
(*   - fetch_papers_by_category_to_db and fetch_daily_papers_to_db, the    *)
(*     retrying fetch and the three-tier category scheduler,               *)
(*   - the batched import of db_tools/import_arxiv.py.                     *)
(* The store is PostgreSQL reached through psycopg2: a table is a set of   *)
(* rows, a statement either applies or raises, and a transaction is the    *)
(* working copy of the tables that commit installs and rollback discards.  *)
(***************************************************************************)
EXTENDS Integers, Sequences, FiniteSets, TLC

(***************************************************************************)
(* Bounds of the model.                                                    *)
(***************************************************************************)
\* longest author list of a catalog record
MaxAuthors == 2
\* operations the history keeps
HistoryDepth == 2
\* longest file of papers imported, the file that reaches a flush apart
MaxFile == 2
\* longest result list a catalog query returns
MaxResults == 2
\* non-empty result lists the catalog returns in one run
MaxResponses == 1
\* faults the catalog and the store raise in one run
MaxFaults == 3

(***************************************************************************)
(* Values.                                                                 *)
(***************************************************************************)
\* Python None / SQL NULL in a text column
NULL == "NULL"

\* A category code is kept as the list of its dot-separated segments,
\* "cs.AI" is <<"cs", "AI">>, so that split('.') is the identity on it;
\* None is the empty list and the empty string is <<"">>.
Code(archive, subject) == <<archive, subject>>

NoCode == <<>>

Last(s) == s[Len(s)]

\* Python truthiness of a category code (None and "" are falsy).
Truthy(code) == code # NoCode /\ code # <<"">>

\* all sequences over S of length at most n
RECURSIVE SeqsUpTo(_, _)
SeqsUpTo(S, n) ==
    IF n = 0 THEN {<<>>}
    ELSE LET shorter == SeqsUpTo(S, n - 1)
         IN  shorter \cup {Append(s, x) : s \in {t \in shorter : Len(t) = n - 1}, x \in S}

Range(s) == {s[i] : i \in 1..Len(s)}

(***************************************************************************)
(* Catalog records (arxiv.Result), as insert_paper_data reads them.        *)
(***************************************************************************)
\* entry_id is a URL; it is kept as the list split("/") returns.
EntryIds ==
    { <<"http:", "", "arxiv.org", "abs", "2401.00001">>,
      <<"http:", "", "arxiv.org", "abs", "2401.00002">> }

AuthorNames == {"X", "Y"}

\* the category lists of the records: none, one code, two codes
CategoryLists ==
    { <<>>, <<Code("cs", "AI")>>, <<Code("cs", "AI"), Code("cs", "LG")>> }

\* The bibliographic fields of a record: a first sighting, and a revision
\* with an older updated timestamp and None in every optional field.
FirstSighting ==
    [title |-> "A", summary |-> <<"a", "\n", "b">>,
     primary_category |-> Code("cs", "AI"), pdf_url |-> "u1",
     published |-> 1, updated |-> 2, journal_ref |-> "J", doi |-> "D"]

Revision ==
    [title |-> "A revised", summary |-> <<"c">>,
     primary_category |-> NoCode, pdf_url |-> NULL,
     published |-> 1, updated |-> 1, journal_ref |-> NULL, doi |-> NULL]

Metas == {FirstSighting, Revision}

AuthorLists == SeqsUpTo(AuthorNames, MaxAuthors)

\* Every record of the first paper; of the second paper, which is there to
\* share authors and categories with the first, the single-author first
\* sightings.
Records ==
    { r \in [entry_id : EntryIds, meta : Metas, authors : AuthorLists,
             categories : CategoryLists] :
        r.entry_id[5] = "2401.00002" =>
            /\ r.meta = FirstSighting
            /\ Len(r.authors) = 1
            /\ r.categories = <<Code("cs", "AI")>> }

(***************************************************************************)
(* The category lists of the scheduler.                                    *)
(***************************************************************************)
CS(subject) == Code("cs", subject)

HIGH_VOLUME_CATEGORIES == <<CS("AI"), CS("CV"), CS("LG"), CS("CL")>>

MEDIUM_VOLUME_CATEGORIES ==
    <<CS("CR"), CS("NE"), CS("RO"), CS("IR"), CS("SE"), CS("SI"), CS("HC"), CS("DB")>>

LOW_VOLUME_CATEGORIES ==
    <<CS("AR"), CS("CC"), CS("CE"), CS("CG"), CS("CY"), CS("DC"), CS("DL"), CS("DM"),
      CS("DS"), CS("ET"), CS("FL"), CS("GL"), CS("GR"), CS("GT"), CS("IT"), CS("LO"),
      CS("MA"), CS("MM"), CS("MS"), CS("NA"), CS("NI"), CS("OH"), CS("OS"),
      CS("PF"), CS("PL"), CS("SC"), CS("SD"), CS("SY")>>

ALL_CS_CATEGORIES ==
    HIGH_VOLUME_CATEGORIES \o MEDIUM_VOLUME_CATEGORIES \o LOW_VOLUME_CATEGORIES

(***************************************************************************)
(* The store: five tables, each a set of rows.                             *)
(***************************************************************************)
VARIABLES
    categories_meta,    \* rows [category_code, description]
    papers,             \* rows [id, title, abstract, ..., summary_ai, detailed_review_ai,
                        \*       title_abstract_embedding, summary_review_embedding]
    authors,            \* rows [author_id, name]
    paper_authors,      \* rows [paper_id, author_id, author_order]
    paper_categories    \* rows [paper_id, category_code]

\* the committed contents of the store, as one value
DB ==
    [categories_meta |-> categories_meta, papers |-> papers, authors |-> authors,
     paper_authors |-> paper_authors, paper_categories |-> paper_categories]

EmptyDB ==
    [categories_meta |-> {}, papers |-> {}, authors |-> {},
     paper_authors |-> {}, paper_categories |-> {}]

(***************************************************************************)
(* The statements of insert_paper_data, each on the tables of the open     *)
(* transaction.                                                            *)
(***************************************************************************)
\* paper_result.entry_id.split("/")[-1]
PaperId(entry_id) == Last(entry_id)

\* paper_result.summary.replace("\n", " ")
ReplaceNewlines(summary) ==
    [i \in 1..Len(summary) |-> IF summary[i] = "\n" THEN " " ELSE summary[i]]

\* f"Category - {code.split('.')[-1] if '.' in code else code}"
CategoryDescription(code) == <<"Category - ", Last(code)>>

\* the same INSERT with ON CONFLICT (category_code) DO UPDATE SET description
RECURSIVE InsertCategoriesMeta_Overwrites(_, _)
InsertCategoriesMeta_Overwrites(table, rows) ==
    IF rows = <<>> THEN table
    ELSE InsertCategoriesMeta_Overwrites(
             {c \in table : c.category_code # Head(rows).category_code}
                 \cup {Head(rows)},
             Tail(rows))

\* INSERT INTO categories_meta (category_code, description) VALUES ...
\* ON CONFLICT (category_code) DO NOTHING, the rows taken in order
RECURSIVE InsertCategoriesMeta(_, _)
InsertCategoriesMeta(table, rows) ==
    IF rows = <<>> THEN table
    ELSE LET row == Head(rows)
             t   == IF \E c \in table : c.category_code = row.category_code
                    THEN table
                    ELSE table \cup {row}
         IN  InsertCategoriesMeta(t, Tail(rows))

\* the row INSERT INTO papers proposes; the two AI columns and the two
\* embedding columns take their default
PaperRow(r) ==
    [id |-> PaperId(r.entry_id),
     title |-> r.meta.title,
     abstract |-> ReplaceNewlines(r.meta.summary),
     primary_category_code |-> r.meta.primary_category,
     pdf_url |-> r.meta.pdf_url,
     arxiv_published_at |-> r.meta.published,
     arxiv_updated_at |-> r.meta.updated,
     journal_ref |-> r.meta.journal_ref,
     doi |-> r.meta.doi,
     summary_ai |-> NULL,
     detailed_review_ai |-> NULL,
     title_abstract_embedding |-> NULL,
     summary_review_embedding |-> NULL]

\* an upsert that keeps the stored row unless the proposed one is newer
UpsertPaper_NewerOnly(table, row) ==
    IF \E p \in table : p.id = row.id
    THEN { IF p.id = row.id /\ row.arxiv_updated_at > p.arxiv_updated_at
           THEN [p EXCEPT !.title = row.title,
                          !.abstract = row.abstract,
                          !.primary_category_code = row.primary_category_code,
                          !.pdf_url = row.pdf_url,
                          !.arxiv_published_at = row.arxiv_published_at,
                          !.arxiv_updated_at = row.arxiv_updated_at,
                          !.journal_ref = row.journal_ref,
                          !.doi = row.doi]
           ELSE p : p \in table }
    ELSE table \cup {row}

\* an upsert that replaces the stored row by the proposed one
UpsertPaper_Replaces(table, row) ==
    {p \in table : p.id # row.id} \cup {row}

\* INSERT INTO papers ... ON CONFLICT (id) DO UPDATE SET <the eight fields>
UpsertPaper(table, row) ==
    IF \E p \in table : p.id = row.id
    THEN { IF p.id = row.id
           THEN [p EXCEPT !.title = row.title,
                          !.abstract = row.abstract,
                          !.primary_category_code = row.primary_category_code,
                          !.pdf_url = row.pdf_url,
                          !.arxiv_published_at = row.arxiv_published_at,
                          !.arxiv_updated_at = row.arxiv_updated_at,
                          !.journal_ref = row.journal_ref,
                          !.doi = row.doi]
           ELSE p : p \in table }
    ELSE table \cup {row}

\* The value the authors sequence hands to a new row: one no row holds.
\* (Rows are never deleted, so the row count plus one is such a value; the
\* values PostgreSQL skips on a conflict or a rollback are not modelled.)
NextAuthorId(table) == Cardinality(table) + 1

\* an INSERT INTO authors without the conflict clause, on a table without
\* the unique constraint
UpsertAuthor_AlwaysInserts(table, name) ==
    table \cup {[author_id |-> NextAuthorId(table), name |-> name]}

\* an upsert that hands the name a new value of the sequence on a conflict
UpsertAuthor_Renumbers(table, name) ==
    IF \E a \in table : a.name = name
    THEN { IF a.name = name THEN [a EXCEPT !.author_id = NextAuthorId(table)]
           ELSE a : a \in table }
    ELSE table \cup {[author_id |-> NextAuthorId(table), name |-> name]}

\* INSERT INTO authors (name) VALUES (%s)
\* ON CONFLICT (name) DO UPDATE SET name = EXCLUDED.name
UpsertAuthor(table, name) ==
    IF \E a \in table : a.name = name
    THEN table
    ELSE table \cup {[author_id |-> NextAuthorId(table), name |-> name]}

\* ... RETURNING author_id
ReturningAuthorId(table, name) ==
    (CHOOSE a \in table : a.name = name).author_id

\* execute_values sends its rows in pages of page_size (100 by default),
\* one INSERT statement per page.
PageSize == 100

SamePage(i, j) == ((i - 1) \div PageSize) = ((j - 1) \div PageSize)

\* PostgreSQL refuses an INSERT ... ON CONFLICT DO UPDATE whose rows propose
\* the same key twice ("command cannot affect row a second time").
AffectsRowTwice(rows) ==
    \E i, j \in 1..Len(rows) :
        /\ i < j
        /\ SamePage(i, j)
        /\ rows[i].paper_id = rows[j].paper_id
        /\ rows[i].author_id = rows[j].author_id

\* the same INSERT with ON CONFLICT DO NOTHING: a stored ordinal stays
RECURSIVE UpsertPaperAuthors_DoNothing(_, _)
UpsertPaperAuthors_DoNothing(table, rows) ==
    IF rows = <<>> THEN table
    ELSE LET row == Head(rows)
             t == IF \E x \in table : /\ x.paper_id = row.paper_id
                                      /\ x.author_id = row.author_id
                  THEN table
                  ELSE table \cup {row}
         IN  UpsertPaperAuthors_DoNothing(t, Tail(rows))

\* a write that first deletes the author rows of the papers it names
UpsertPaperAuthors_Rewrite(table, rows) ==
    {x \in table : \A i \in 1..Len(rows) : x.paper_id # rows[i].paper_id}
    \cup Range(rows)

\* INSERT INTO paper_authors (paper_id, author_id, author_order) VALUES ...
\* ON CONFLICT (paper_id, author_id) DO UPDATE SET author_order = EXCLUDED.author_order
RECURSIVE UpsertPaperAuthors(_, _)
UpsertPaperAuthors(table, rows) ==
    IF rows = <<>> THEN table
    ELSE LET row == Head(rows)
             hit(x) == x.paper_id = row.paper_id /\ x.author_id = row.author_id
             t == IF \E x \in table : hit(x)
                  THEN { IF hit(x) THEN [x EXCEPT !.author_order = row.author_order]
                         ELSE x : x \in table }
                  ELSE table \cup {row}
         IN  UpsertPaperAuthors(t, Tail(rows))

\* a write that replaces the categories of the papers it names
InsertPaperCategories_Replace(table, rows) ==
    {x \in table : \A i \in 1..Len(rows) : x.paper_id # rows[i].paper_id}
    \cup Range(rows)

\* INSERT INTO paper_categories (paper_id, category_code) VALUES ...
\* ON CONFLICT (paper_id, category_code) DO NOTHING
RECURSIVE InsertPaperCategories(_, _)
InsertPaperCategories(table, rows) ==
    IF rows = <<>> THEN table
    ELSE LET row == Head(rows)
             t == IF \E x \in table : /\ x.paper_id = row.paper_id
                                      /\ x.category_code = row.category_code
                  THEN table
                  ELSE table \cup {row}
         IN  InsertPaperCategories(t, Tail(rows))

\* [cat_code for cat_code in all_category_codes if cat_code]
RECURSIVE TruthyCodes(_)
TruthyCodes(codes) ==
    IF codes = <<>> THEN <<>>
    ELSE IF Truthy(Head(codes)) THEN <<Head(codes)>> \o TruthyCodes(Tail(codes))
    ELSE TruthyCodes(Tail(codes))

\* cat_meta_data: (cat_code, desc) for every truthy code of the record
CatMetaData(r) ==
    LET codes == TruthyCodes(r.categories)
    IN  [i \in 1..Len(codes) |->
            [category_code |-> codes[i], description |-> CategoryDescription(codes[i])]]

\* paper_cat_data: (paper_id, cat_code) for every truthy code of the record
PaperCatData(r) ==
    LET codes == TruthyCodes(r.categories)
    IN  [i \in 1..Len(codes) |->
            [paper_id |-> PaperId(r.entry_id), category_code |-> codes[i]]]

(***************************************************************************)
(* insert_paper_data: the statements one call issues, in order, and the    *)
(* faults the store can answer them with.                                  *)
(***************************************************************************)
Statement(op, arg) == [op |-> op, arg |-> arg]

\* the statements without the INSERT of the primary category
Statements_NoPrimaryCategory(r) ==
    <<Statement("paper", 0)>>
    \o [i \in 1..Len(r.authors) |-> Statement("author", i)]
    \o (IF Len(r.authors) > 0 THEN <<Statement("paper_authors", 0)>> ELSE <<>>)
    \o (IF CatMetaData(r) # <<>> THEN <<Statement("categories_meta", 0)>> ELSE <<>>)
    \o (IF PaperCatData(r) # <<>> THEN <<Statement("paper_categories", 0)>> ELSE <<>>)
    \o <<Statement("commit", 0)>>

Statements(r) ==
    (IF Truthy(r.meta.primary_category) THEN <<Statement("category", 0)>> ELSE <<>>)
    \o <<Statement("paper", 0)>>
    \o [i \in 1..Len(r.authors) |-> Statement("author", i)]
    \o (IF Len(r.authors) > 0 THEN <<Statement("paper_authors", 0)>> ELSE <<>>)
    \o (IF CatMetaData(r) # <<>> THEN <<Statement("categories_meta", 0)>> ELSE <<>>)
    \o (IF PaperCatData(r) # <<>> THEN <<Statement("paper_categories", 0)>> ELSE <<>>)
    \o <<Statement("commit", 0)>>

\* A fault is raised by the statement at position `at` of the call:
\*   "error": the statement raises psycopg2.Error, the connection stays usable;
\*   "lost":  the connection is lost, the statement raises and every later
\*            call on the connection, rollback included, raises as well.
NoFault == [kind |-> "none", at |-> 0]

Faults(r) ==
    {NoFault}
    \cup {[kind |-> "error", at |-> k] : k \in 1..Len(Statements(r))}
    \cup {[kind |-> "lost", at |-> k] : k \in 1..(Len(Statements(r)) - 1)}

\* One statement on the open transaction w = [db, author_ids_order, raised].
Execute(w, stmt, r) ==
    LET db == w.db
    IN  CASE stmt.op = "category" ->
               [w EXCEPT !.db.categories_meta =
                   InsertCategoriesMeta(db.categories_meta,
                       <<[category_code |-> r.meta.primary_category,
                          description |-> CategoryDescription(r.meta.primary_category)]>>)]
          [] stmt.op = "paper" ->
               [w EXCEPT !.db.papers = UpsertPaper(db.papers, PaperRow(r))]
          [] stmt.op = "author" ->
               LET name == r.authors[stmt.arg]
                   table == UpsertAuthor(db.authors, name)
               IN  [w EXCEPT !.db.authors = table,
                             !.author_ids_order = Append(@,
                                 [paper_id |-> PaperId(r.entry_id),
                                  author_id |-> ReturningAuthorId(table, name),
                                  author_order |-> stmt.arg])]
          [] stmt.op = "paper_authors" ->
               IF AffectsRowTwice(w.author_ids_order)
               THEN [w EXCEPT !.raised = TRUE]
               ELSE [w EXCEPT !.db.paper_authors =
                        UpsertPaperAuthors(db.paper_authors, w.author_ids_order)]
          [] stmt.op = "categories_meta" ->
               [w EXCEPT !.db.categories_meta =
                   InsertCategoriesMeta(db.categories_meta, CatMetaData(r))]
          [] stmt.op = "paper_categories" ->
               [w EXCEPT !.db.paper_categories =
                   InsertPaperCategories(db.paper_categories, PaperCatData(r))]
          [] stmt.op = "commit" -> w

\* The statements from position k on, stopping at the first that raises.
RECURSIVE RunStatements(_, _, _, _, _)
RunStatements(w, stmts, k, r, fault) ==
    IF k > Len(stmts) THEN w
    ELSE IF fault.at = k THEN [w EXCEPT !.raised = TRUE]
    ELSE \* w2: the transaction after the statement at position k
         CHOOSE end \in { IF w2.raised THEN w2
                          ELSE RunStatements(w2, stmts, k + 1, r, fault)
                          : w2 \in {Execute(w, stmts[k], r)} } : TRUE

\* conn.commit(): the tables of the transaction become the committed ones
Commit(committed, working) == working

\* conn.rollback(): the tables of the transaction are discarded
Rollback(committed, working) == committed

\* insert_paper_data(conn, paper_result) on committed tables db:
\* the committed tables after the call, what the call returned ("True",
\* "False") or that it raised, and the state of the connection.
insert_paper_data(db, conn, r, fault) ==
    IF conn = "closed"
    THEN \* conn.cursor() raises outside the try
         [db |-> db, res |-> "raised", conn |-> conn]
    ELSE LET w == RunStatements([db |-> db, author_ids_order |-> <<>>, raised |-> FALSE],
                                Statements(r), 1, r, fault)
         IN  IF ~w.raised
             THEN [db |-> Commit(db, w.db), res |-> "True", conn |-> conn]
             ELSE IF fault.kind = "lost" /\ w.raised
             THEN \* conn.rollback() raises in the except clause; the server
                  \* discards the transaction of the lost connection
                  [db |-> db, res |-> "raised", conn |-> "closed"]
             ELSE [db |-> Rollback(db, w.db), res |-> "False", conn |-> conn]

(***************************************************************************)
(* db_tools/import_arxiv.py: the import of a JSON file of papers.          *)
(***************************************************************************)
\* `not s` for a string of the file, a missing key included
Falsy(s) == s = NULL \/ s = ""

\* None in author_name_to_id; the ids of the store start at 1
NoAuthorId == 0

\* a timestamp column that holds NULL
NoTime == 0

\* the description column of a row inserted without one
NoDescription == <<>>

\* A timestamp of the file: its text is ISO 8601, empty, or nothing
\* parse_datetime can read; instant is what an ISO text denotes.
parse_datetime(dt_str) ==
    IF dt_str.text = "" THEN NoTime
    ELSE IF dt_str.text = "iso" THEN dt_str.instant
    ELSE NoTime

\* the papers of the files: the first paper as the catalog first shows it;
\* the second without a title, with a blank author name before "Y", an
\* empty category code and a timestamp that cannot be read; an entry
\* without an id
JsonFirst ==
    [id |-> "2401.00001", title |-> "A", abstract |-> <<"a", " ", "b">>,
     primary_category_code |-> Code("cs", "AI"), pdf_url |-> "u1",
     arxiv_published_at |-> [text |-> "iso", instant |-> 1],
     arxiv_updated_at |-> [text |-> "iso", instant |-> 2],
     summary_ai |-> NULL, detailed_review_ai |-> NULL,
     journal_ref |-> "J", doi |-> "D",
     categories |-> <<Code("cs", "AI"), Code("cs", "LG")>>,
     authors |-> <<"X", "Y">>]

JsonSecond ==
    [id |-> "2401.00002", title |-> NULL, abstract |-> <<"a", " ", "b">>,
     primary_category_code |-> Code("cs", "AI"), pdf_url |-> "u1",
     arxiv_published_at |-> [text |-> "iso", instant |-> 1],
     arxiv_updated_at |-> [text |-> "junk", instant |-> 2],
     summary_ai |-> NULL, detailed_review_ai |-> NULL,
     journal_ref |-> "J", doi |-> "D",
     categories |-> <<<<"">>, Code("cs", "AI")>>,
     authors |-> <<"", "Y">>]

JsonNoId == [JsonFirst EXCEPT !.id = NULL]

\* the second paper with "id": ""
JsonEmptyId == [JsonSecond EXCEPT !.id = ""]

JsonPapers == {JsonFirst, JsonSecond, JsonNoId}

\* (i + 1) % 100 == 0: the loop flushes and commits at every 100th entry
FlushEvery == 100

\* a file long enough to reach the flush inside the loop: 98 entries
\* without an id, then the two papers
LongFile ==
    [k \in 1..FlushEvery |->
        IF k = FlushEvery - 1 THEN JsonSecond
        ELSE IF k = FlushEvery THEN JsonFirst
        ELSE JsonNoId]

ImportFiles == SeqsUpTo(JsonPapers, MaxFile) \cup {LongFile}

\* The statements of one run that raise psycopg2.Error: the INSERT of the
\* paper at position `paper` of the file (0: none), the final flush.
ImportFaults(file) ==
    [paper : {0} \cup {k \in 1..Len(file) : file[k].id # NULL /\ file[k].id # ""},
     flush : BOOLEAN]

\* the codes of the paper that category_code_set does not hold yet
RECURSIVE FreshCodes(_, _)
FreshCodes(codes, known) ==
    IF codes = <<>> THEN <<>>
    ELSE IF Truthy(Head(codes)) /\ Head(codes) \notin known
    THEN <<Head(codes)>> \o FreshCodes(Tail(codes), known \cup {Head(codes)})
    ELSE FreshCodes(Tail(codes), known)

\* the names of the paper that author_name_to_id does not hold yet
RECURSIVE FreshAuthors(_, _)
FreshAuthors(names, known) ==
    IF names = <<>> THEN <<>>
    ELSE IF ~Falsy(Head(names)) /\ Head(names) \notin known
    THEN <<Head(names)>> \o FreshAuthors(Tail(names), known \cup {Head(names)})
    ELSE FreshAuthors(Tail(names), known)

\* the row INSERT INTO papers proposes for a paper of the file
\* the row without paper["title"] = ""
ImportPaperRow_TitleAsRead(paper) ==
    [id |-> paper.id,
     title |-> paper.title,
     abstract |-> paper.abstract,
     primary_category_code |-> paper.primary_category_code,
     pdf_url |-> paper.pdf_url,
     arxiv_published_at |-> parse_datetime(paper.arxiv_published_at),
     arxiv_updated_at |-> parse_datetime(paper.arxiv_updated_at),
     journal_ref |-> paper.journal_ref,
     doi |-> paper.doi,
     summary_ai |-> paper.summary_ai,
     detailed_review_ai |-> paper.detailed_review_ai,
     title_abstract_embedding |-> NULL,
     summary_review_embedding |-> NULL]

ImportPaperRow(paper) ==
    [id |-> paper.id,
     title |-> IF Falsy(paper.title) THEN "" ELSE paper.title,
     abstract |-> paper.abstract,
     primary_category_code |-> paper.primary_category_code,
     pdf_url |-> paper.pdf_url,
     arxiv_published_at |-> parse_datetime(paper.arxiv_published_at),
     arxiv_updated_at |-> parse_datetime(paper.arxiv_updated_at),
     journal_ref |-> paper.journal_ref,
     doi |-> paper.doi,
     summary_ai |-> paper.summary_ai,
     detailed_review_ai |-> paper.detailed_review_ai,
     title_abstract_embedding |-> NULL,
     summary_review_embedding |-> NULL]

\* INSERT INTO papers ... ON CONFLICT (id) DO NOTHING
InsertPaper(table, row) ==
    IF \E p \in table : p.id = row.id THEN table ELSE table \cup {row}

\* INSERT INTO authors (name) VALUES ... ON CONFLICT (name) DO NOTHING
RECURSIVE InsertAuthors(_, _)
InsertAuthors(table, names) ==
    IF names = <<>> THEN table
    ELSE LET t == IF \E a \in table : a.name = Head(names)
                  THEN table
                  ELSE table \cup {[author_id |-> NextAuthorId(table),
                                    name |-> Head(names)]}
         IN  InsertAuthors(t, Tail(names))

\* INSERT INTO paper_authors (paper_id, author_id, author_order) VALUES ...
\* ON CONFLICT DO NOTHING
RECURSIVE InsertPaperAuthors(_, _)
InsertPaperAuthors(table, rows) ==
    IF rows = <<>> THEN table
    ELSE LET row == Head(rows)
             t == IF \E x \in table : /\ x.paper_id = row.paper_id
                                      /\ x.author_id = row.author_id
                  THEN table
                  ELSE table \cup {row}
         IN  InsertPaperAuthors(t, Tail(rows))

\* for order, author in enumerate(paper.get("authors", []), 1): the rows of
\* the authors from position `order` on whose id the cache holds
RECURSIVE PaperAuthorRowsOf(_, _, _)
PaperAuthorRowsOf(paper, order, ids) ==
    IF order > Len(paper.authors) THEN <<>>
    ELSE LET author == paper.authors[order]
             skip == \/ Falsy(author)
                     \/ author \notin DOMAIN ids
                     \/ ids[author] = NoAuthorId
         IN  (IF skip THEN <<>>
              ELSE <<[paper_id |-> paper.id, author_id |-> ids[author],
                      author_order |-> order]>>)
             \o PaperAuthorRowsOf(paper, order + 1, ids)

\* if "id" not in paper or not paper["id"]: continue
HasId(paper) == ~Falsy(paper.id)

\* ... of every paper with an id among the given ones
RECURSIVE PaperAuthorRowsOfAll(_, _)
PaperAuthorRowsOfAll(with_id, ids) ==
    IF with_id = <<>> THEN <<>>
    ELSE PaperAuthorRowsOf(Head(with_id), 1, ids)
         \o PaperAuthorRowsOfAll(Tail(with_id), ids)

PaperAuthorRows(some_papers, ids) ==
    PaperAuthorRowsOfAll(SelectSeq(some_papers, HasId), ids)

\* SELECT author_id FROM authors WHERE name=%s, for every name cached as None
RefreshAuthorIds(ids, table) ==
    [n \in DOMAIN ids |->
        IF ids[n] = NoAuthorId /\ \E a \in table : a.name = n
        THEN ReturningAuthorId(table, n)
        ELSE ids[n]]

\* The state of the run when the caches are loaded from the committed
\* tables db: the open transaction w, what is committed, the two caches
\* and the four lists of rows to insert.
Loaded(db) ==
    [w |-> db, committed |-> db,
     author_name_to_id |->
         [n \in {a.name : a \in db.authors} |-> ReturningAuthorId(db.authors, n)],
     category_code_set |-> {c.category_code : c \in db.categories_meta},
     new_categories |-> <<>>, new_authors |-> <<>>,
     new_paper_authors |-> <<>>, new_paper_categories |-> <<>>]

\* The batched statements, on the state L of the run, with the papers whose
\* paper_authors rows are prepared: categories_meta, authors and the refresh
\* of the cache, paper_authors, paper_categories, commit.
Flush(L, some_papers) ==
    LET cat_rows == [i \in 1..Len(L.new_categories) |->
                        [category_code |-> L.new_categories[i],
                         description |-> NoDescription]]
        cats == InsertCategoriesMeta(L.w.categories_meta, cat_rows)
        auts == InsertAuthors(L.w.authors, L.new_authors)
        ids  == IF L.new_authors # <<>>
                THEN RefreshAuthorIds(L.author_name_to_id, auts)
                ELSE L.author_name_to_id
        pas  == InsertPaperAuthors(L.w.paper_authors,
                    L.new_paper_authors \o PaperAuthorRows(some_papers, ids))
        pcs  == InsertPaperCategories(L.w.paper_categories, L.new_paper_categories)
        w    == [L.w EXCEPT !.categories_meta = cats, !.authors = auts,
                            !.paper_authors = pas, !.paper_categories = pcs]
    IN  [L EXCEPT !.w = w, !.committed = w, !.author_name_to_id = ids,
                  !.new_categories = <<>>, !.new_authors = <<>>,
                  !.new_paper_authors = <<>>, !.new_paper_categories = <<>>]

\* The batched statements inside the loop when the statement `at` raises
\* psycopg2.Error: a list whose INSERT went through is already reset, the
\* cache may hold the ids of the rows that the rollback then discards.
FlushStatements == <<"categories_meta", "authors", "paper_authors",
                     "paper_categories", "commit">>

FlushFails(L, some_papers, at) ==
    LET n == CHOOSE j \in 1..Len(FlushStatements) : FlushStatements[j] = at
        auts == InsertAuthors(L.w.authors, L.new_authors)
        ids  == IF n > 2 /\ L.new_authors # <<>>
                THEN RefreshAuthorIds(L.author_name_to_id, auts)
                ELSE L.author_name_to_id
    IN  [L EXCEPT
           !.w = Rollback(L.committed, L.w),
           !.author_name_to_id = ids,
           !.new_categories = IF n > 1 THEN <<>> ELSE @,
           !.new_authors = IF n > 2 THEN <<>> ELSE @,
           !.new_paper_authors =
               IF n > 3 THEN <<>>
               ELSE IF n = 3 THEN @ \o PaperAuthorRows(some_papers, ids)
               ELSE @,
           !.new_paper_categories = IF n > 4 THEN <<>> ELSE @]

\* the statements of the flush that are executed: an INSERT is skipped when
\* its list is empty
FlushRuns(L, some_papers, at) ==
    \/ at = "categories_meta" /\ L.new_categories # <<>>
    \/ at = "authors" /\ L.new_authors # <<>>
    \/ at = "paper_authors"
         /\ FlushFails(L, some_papers, at).new_paper_authors # <<>>
    \/ at = "paper_categories" /\ L.new_paper_categories # <<>>
    \/ at = "commit"

\* papers[max(0, i-99):i+1], with i = k - 1
Window(file, k) ==
    SubSeq(file, IF k - FlushEvery + 1 > 1 THEN k - FlushEvery + 1 ELSE 1, k)

\* the state of the run when the entry at position k, which has an id, got
\* its categories and authors noted
Noted(L, file, k) ==
    LET paper == file[k]
        fresh_c == FreshCodes(paper.categories, L.category_code_set)
        fresh_a == FreshAuthors(paper.authors, DOMAIN L.author_name_to_id)
        names == DOMAIN L.author_name_to_id \cup Range(fresh_a)
    IN  [L EXCEPT
           !.new_categories = @ \o fresh_c,
           !.category_code_set = @ \cup Range(fresh_c),
           !.new_authors = @ \o fresh_a,
           !.author_name_to_id =
               [n \in names |->
                   IF n \in DOMAIN L.author_name_to_id
                   THEN L.author_name_to_id[n] ELSE NoAuthorId]]

\* ... and when its paper was inserted and its categories were listed
Inserted(L, file, k) ==
    LET paper == file[k]
        codes == TruthyCodes(paper.categories)
    IN  [Noted(L, file, k) EXCEPT
           !.w.papers = InsertPaper(@, ImportPaperRow(paper)),
           !.new_paper_categories = @ \o
               [i \in 1..Len(codes) |->
                   [paper_id |-> paper.id, category_code |-> codes[i]]]]

\* one pass of the loop over the papers, for the entry at position k
ImportPaper(L, file, k, fault) ==
    IF ~HasId(file[k]) THEN L
    ELSE IF fault.paper = k
    THEN \* except psycopg2.Error: conn.rollback()
         [Noted(L, file, k) EXCEPT !.w = Rollback(L.committed, L.w)]
    ELSE IF k % FlushEvery = 0
    THEN Flush(Inserted(L, file, k), Window(file, k))
    ELSE Inserted(L, file, k)

\* The loop from position k on.  An entry without an id is passed over
\* before anything is done with it, so the loop goes from one entry with an
\* id to the next.
RECURSIVE ImportLoop(_, _, _, _)
ImportLoop(L, file, k, fault) ==
    LET with_id == {j \in k..Len(file) : HasId(file[j])}
    IN  IF with_id = {} THEN L
        ELSE CHOOSE end \in
               { ImportLoop(L2, file, j + 1, fault)
                 : <<j, L2>> \in
                     { <<j, ImportPaper(L, file, j, fault)>>
                       : j \in {i \in with_id : \A h \in with_id : i <= h} } } : TRUE

\* main() of import_arxiv.py on committed tables db: the committed tables
\* when the connection is closed
import_arxiv_main(db, file, fault) ==
    LET L == ImportLoop(Loaded(db), file, 1, fault)
    IN  IF fault.flush
        THEN \* except Exception: conn.rollback()
             Rollback(L.committed, L.w)
        ELSE Flush(L, file).committed

(***************************************************************************)
(* The pre-population of categories_meta at script start.                  *)
(***************************************************************************)
\* f"Computer Science - {desc_suffix}"
KnownCategoryDescription(code) == <<"Computer Science - ", Last(code)>>

PrePopulateRows ==
    [i \in 1..Len(ALL_CS_CATEGORIES) |->
        [category_code |-> ALL_CS_CATEGORIES[i],
         description |-> KnownCategoryDescription(ALL_CS_CATEGORIES[i])]]

(***************************************************************************)
(* History: the operations on the store since it was empty, kept while     *)
(* there are at most HistoryDepth of them.  It is written and never read   *)
(* by the operations.                                                      *)
(***************************************************************************)
VARIABLES
    history,    \* the operations so far, oldest first, while recording
    recording   \* FALSE once more than HistoryDepth operations have run

\* An insert_paper_data call: its record (kept for the fault-free calls),
\* the kind of the fault and what the call returned.
Call(r, fault, res) ==
    [op |-> "insert_paper_data",
     rec |-> IF fault = NoFault THEN <<r>> ELSE <<>>,
     kind |-> fault.kind, res |-> res]

Record(entry) ==
    IF recording /\ Len(history) < HistoryDepth
    THEN history' = Append(history, entry) /\ recording' = TRUE
    ELSE history' = <<>> /\ recording' = FALSE

store == <<categories_meta, papers, authors, paper_authors, paper_categories>>

SetDB(db) ==
    /\ categories_meta' = db.categories_meta
    /\ papers' = db.papers
    /\ authors' = db.authors
    /\ paper_authors' = db.paper_authors
    /\ paper_categories' = db.paper_categories

(***************************************************************************)
(* The scheduler: fetch_daily_papers_to_db and, inside it,                 *)
(* fetch_papers_by_category_to_db.                                         *)
(***************************************************************************)
\* s[i:i+n] for i in range(0, len(s), n)
Chunks(s, n) ==
    [g \in 1..((Len(s) + n - 1) \div n) |->
        SubSeq(s, (g - 1) * n + 1, IF g * n < Len(s) THEN g * n ELSE Len(s))]

\* category_processing_order: (categories, vol_type, group size, max_total, sleep_time)
category_processing_order ==
    << [categories |-> HIGH_VOLUME_CATEGORIES, vol_type |-> "HIGH",
        group_size |-> 1, max_t |-> 500, sleep_t |-> 5],
       [categories |-> MEDIUM_VOLUME_CATEGORIES, vol_type |-> "MEDIUM",
        group_size |-> 2, max_t |-> 300, sleep_t |-> 3],
       [categories |-> LOW_VOLUME_CATEGORIES, vol_type |-> "LOW",
        group_size |-> 5, max_t |-> 150, sleep_t |-> 2] >>

\* The three nested loops, unrolled: one entry per category, in the order
\* the loops reach it, with whether it ends its group.
TierSchedule(t) ==
    LET groups == Chunks(t.categories, t.group_size)
    IN  [i \in 1..Len(t.categories) |->
            LET g == ((i - 1) \div t.group_size) + 1
            IN  [category |-> t.categories[i], vol_type |-> t.vol_type,
                 max_t |-> t.max_t, sleep_t |-> t.sleep_t,
                 ends_group |-> (t.categories[i] = Last(groups[g]))]]

\* a schedule that takes the MEDIUM tier first
Schedule_MediumFirst ==
    TierSchedule(category_processing_order[2])
    \o TierSchedule(category_processing_order[1])
    \o TierSchedule(category_processing_order[3])

Schedule ==
    TierSchedule(category_processing_order[1])
    \o TierSchedule(category_processing_order[2])
    \o TierSchedule(category_processing_order[3])

max_api_call_failures == 3

\* the records the catalog holds for the day, and the result lists a query
\* can return
FetchRecords ==
    { [entry_id |-> <<"http:", "", "arxiv.org", "abs", "2401.00001">>,
       meta |-> FirstSighting, authors |-> <<"X", "Y">>,
       categories |-> <<Code("cs", "AI"), Code("cs", "LG")>>],
      [entry_id |-> <<"http:", "", "arxiv.org", "abs", "2401.00002">>,
       meta |-> FirstSighting, authors |-> <<"X">>,
       categories |-> <<Code("cs", "AI")>>] }

ResultLists == SeqsUpTo(FetchRecords, MaxResults)

\* the records of one day: paper 2401.00001 is listed under cs.AI and cs.LG
DayFeed(category) ==
    LET first  == CHOOSE r \in FetchRecords : r.entry_id[5] = "2401.00001"
        second == CHOOSE r \in FetchRecords : r.entry_id[5] = "2401.00002"
    IN  IF category = Code("cs", "AI") THEN <<first, second>>
        ELSE IF category = Code("cs", "LG") THEN <<first>>
        ELSE <<>>

\* max_total of the tier of a category
CapOf(category) == (CHOOSE entry \in Range(Schedule) : entry.category = category).max_t

\* a feed of n results
LongFeed(n) ==
    [k \in 1..n |-> CHOOSE r \in FetchRecords : r.entry_id[5] = "2401.00002"]

\* the categories with more results than their tier takes: one of each tier
LongCategories == {HIGH_VOLUME_CATEGORIES[1], MEDIUM_VOLUME_CATEGORIES[1],
                   LOW_VOLUME_CATEGORIES[1]}

\* The feeds a catalog can answer a query for a category with, when it has
\* answered so many queries of the run with results.  The catalog "any"
\* answers every category with any result list, the catalog "day" holds
\* the records of one day, the catalog "long" has one result more than
\* the tier takes for some categories.
Feeds(cat_name, category, answered) ==
    CASE cat_name = "any" ->
            IF answered < MaxResponses THEN ResultLists ELSE {<<>>}
      [] cat_name = "day" -> {DayFeed(category)}
      [] cat_name = "long" ->
            IF category \in LongCategories /\ answered < MaxResponses
            THEN {<<>>, LongFeed(CapOf(category) + 1)}
            ELSE {<<>>}

\* the client with max_results = float('inf'): every result of the feed
ClientResults_Unbounded(feed, max_results) == feed

\* list(arxiv_client.results(arxiv.Search(max_results=max_total))): the
\* client yields the results of the feed up to max_results of them
ClientResults(feed, max_results) ==
    SubSeq(feed, 1, IF Len(feed) < max_results THEN Len(feed) ELSE max_results)

VARIABLES
    pc,                 \* where the run of the day is
    db_conn,            \* "none", "open" or "closed"
    ci,                 \* position in Schedule of the category being fetched
    failures,           \* of fetch_papers_by_category_to_db
    inserted_count,
    results_list,
    papers_processed_in_this_attempt,
    count,              \* what the last fetch_papers_by_category_to_db returned
    total_inserted_papers_for_day,
    faults,             \* faults the catalog and the store have raised this run
    responses,          \* non-empty result lists the catalog has returned this run
    attempts,           \* queries issued by the current call (history)
    sleeps,             \* 15 s sleeps of the current call (history)
    outcome,            \* how the last call ended (history)
    fetched,            \* the categories fetched so far, in order (history)
    exhausted,          \* the categories whose call used up its retries (history)
    failed              \* the kinds of failure met in this run (history)

call == <<failures, inserted_count, results_list, papers_processed_in_this_attempt,
          attempts, sleeps>>

fetch == <<pc, db_conn, ci, call, count, total_inserted_papers_for_day, faults,
           responses, outcome, fetched, exhausted, failed>>

(***************************************************************************)
(* The command line of period_fetcher.py and its dates.                    *)
(***************************************************************************)
\* A date argument is the sequence of its characters.
Digits == {"0", "1", "2", "3", "4", "5", "6", "7", "8", "9"}

\* int(c) for a digit c
DigitValue(c) ==
    CASE c = "0" -> 0 [] c = "1" -> 1 [] c = "2" -> 2 [] c = "3" -> 3
      [] c = "4" -> 4 [] c = "5" -> 5 [] c = "6" -> 6 [] c = "7" -> 7
      [] c = "8" -> 8 [] c = "9" -> 9

\* int(date_str[a:b]) for digits
RECURSIVE IntOf(_)
IntOf(chars) ==
    IF chars = <<>> THEN 0
    ELSE 10 * IntOf(SubSeq(chars, 1, Len(chars) - 1)) + DigitValue(Last(chars))

IsLeap(year) == (year % 4 = 0 /\ year % 100 # 0) \/ year % 400 = 0

DaysInMonth(year, month) ==
    IF month = 2 THEN (IF IsLeap(year) THEN 29 ELSE 28)
    ELSE IF month \in {4, 6, 9, 11} THEN 30 ELSE 31

\* what datetime.datetime(year, month, day) accepts (MINYEAR is 1)
ValidDate(year, month, day) ==
    /\ year >= 1
    /\ month \in 1..12
    /\ day \in 1..DaysInMonth(year, month)

\* the value ValueError is raised with stands for
ValueError == <<"ValueError">>

\* parse_date_str(date_str): the date <<year, month, day>>, or ValueError
parse_date_str(date_str) ==
    IF ~(Len(date_str) = 8 /\ \A k \in 1..Len(date_str) : date_str[k] \in Digits)
    THEN ValueError
    ELSE LET year  == IntOf(SubSeq(date_str, 1, 4))
             month == IntOf(SubSeq(date_str, 5, 6))
             day   == IntOf(SubSeq(date_str, 7, 8))
         IN  IF ValidDate(year, month, day) THEN <<year, month, day>> ELSE ValueError

\* a <= b for dates
DateLeq(a, b) ==
    \/ a[1] < b[1]
    \/ a[1] = b[1] /\ a[2] < b[2]
    \/ a[1] = b[1] /\ a[2] = b[2] /\ a[3] <= b[3]

\* dt + datetime.timedelta(days=1)
NextDay(dt) ==
    IF dt[3] < DaysInMonth(dt[1], dt[2]) THEN <<dt[1], dt[2], dt[3] + 1>>
    ELSE IF dt[2] < 12 THEN <<dt[1], dt[2] + 1, 1>>
    ELSE <<dt[1] + 1, 1, 1>>

\* while current_dt <= end_dt: append, current_dt += one day
RECURSIVE DatesFrom(_, _)
DatesFrom(current_dt, end_dt) ==
    IF DateLeq(current_dt, end_dt)
    THEN <<current_dt>> \o DatesFrom(NextDay(current_dt), end_dt)
    ELSE <<>>

\* args.end_date when the option is not given
None == <<"None">>

\* end_date_input_str.lower() == 'today', for the spellings of the model
IsToday(date_str) ==
    date_str \in { <<"t", "o", "d", "a", "y">>, <<"T", "o", "d", "a", "y">> }

\* The try block of main() on the arguments and the date of the clock:
\* the list of dates to process, or the exit status the block ends with.
TargetDates(start_date, end_date, today) ==
    LET start_dt == parse_date_str(start_date)
        end_dt == IF end_date = None THEN start_dt
                  ELSE IF IsToday(end_date) THEN today
                  ELSE parse_date_str(end_date)
    IN  IF start_dt = ValueError \/ end_dt = ValueError
        THEN [exit |-> 1, dates |-> <<>>]
        ELSE IF ~DateLeq(start_dt, end_dt)
        THEN [exit |-> 1, dates |-> <<>>]
        ELSE [exit |-> 0, dates |-> DatesFrom(start_dt, end_dt)]

VARIABLES
    catalog,            \* which catalog the process talks to (see Feeds)
    killed,             \* where a run was killed, if one was (history)
    imp,                \* the run of db_tools/import_arxiv.py, step by step
    win,                \* the date queries built and what they selected
    writers,            \* the open transactions of concurrent insert_paper_data calls
    stack,              \* the calls of fetch_papers_by_category (dailyarxivfetcher.py)
    pool,               \* the worker pool of download_papers_from_json and its files
    paused,             \* the pauses of the run: after which category, how long (history)
    mpc,                \* where the process is
    argv,               \* [start_date, end_date] and the date of the clock
    target_dates_dt_list,
    day_i,              \* the loop index i of main(): the day in process, from 0
    total_inserted_across_all_days,
    days_run,           \* the dates fetch_daily_papers_to_db was called with (history)
    day_counts,         \* what these calls returned (history)
    day_pauses,         \* the values of i after which the driver paused (history)
    startup             \* how the startup of the process went (history)

driver == <<mpc, argv, target_dates_dt_list, day_i, total_inserted_across_all_days,
            days_run, day_counts, day_pauses, startup>>

world == <<catalog, killed, imp, win, writers, stack, pool>>

process == <<world, paused, driver>>

vars == <<store, history, recording, fetch, process>>

\* the arguments the process is started with, and the dates of the clock
StartDates ==
    { <<"2", "0", "2", "4", "0", "1", "3", "1">>,      \* 31 January 2024
      <<"2", "0", "2", "4", "0", "2", "3", "0">>,      \* no such day
      <<"2", "0", "2", "4", "0", "1", "3">>,           \* seven characters
      <<"2", "0", "2", "4", "-", "1", "3", "1">> }     \* not all digits

EndDates ==
    { None,
      <<"t", "o", "d", "a", "y">>,
      <<"2", "0", "2", "4", "0", "2", "0", "2">>,      \* 2 February 2024
      <<"2", "0", "2", "4", "0", "1", "3", "0">>,      \* the day before the start
      <<"2", "0", "2", "4", "1", "3", "0", "1">> }     \* no such month

Todays == { <<2024, 2, 1>>, <<2024, 1, 30>> }

\* the clock matters to the arguments that say 'today'
Argvs ==
    { a \in [start_date : StartDates, end_date : EndDates, today : Todays] :
        ~IsToday(a.end_date) => a.today = <<2024, 2, 1>> }

\* the arguments of a run that is not started from the command line
NoArgv == [start_date |-> <<>>, end_date |-> None, today |-> <<2024, 2, 1>>]

(***************************************************************************)
(* The date window of the queries.  An instant is <<year, month, day,      *)
(* hour, minute, second, microsecond>>, UTC.                               *)
(***************************************************************************)
DigitOf(n) == CHOOSE c \in Digits : DigitValue(c) = n

TwoDigits(n) == <<DigitOf(n \div 10), DigitOf(n % 10)>>

\* target_date_dt.strftime('%Y%m%d')
strftime(dt) ==
    TwoDigits(dt[1] \div 100) \o TwoDigits(dt[1] % 100)
    \o TwoDigits(dt[2]) \o TwoDigits(dt[3])

\* date_query_start, date_query_end and the category of the query string
DateQuery(category, date_str) ==
    [start |-> date_str \o <<"0", "0", "0", "0", "0", "0">>,
     end   |-> date_str \o <<"2", "3", "5", "9", "5", "9">>,
     cat   |-> category]

\* the instant a bound YYYYMMDDHHMMSS of the range names
BoundInstant(chars) ==
    <<IntOf(SubSeq(chars, 1, 4)), IntOf(SubSeq(chars, 5, 6)),
      IntOf(SubSeq(chars, 7, 8)), IntOf(SubSeq(chars, 9, 10)),
      IntOf(SubSeq(chars, 11, 12)), IntOf(SubSeq(chars, 13, 14)), 0>>

\* a <= b for instants
RECURSIVE InstantLeq(_, _)
InstantLeq(a, b) ==
    \/ a = <<>>
    \/ a # <<>> /\ Head(a) < Head(b)
    \/ a # <<>> /\ Head(a) = Head(b) /\ InstantLeq(Tail(a), Tail(b))

\* submittedDate:[start TO end] AND cat:category, on a record submitted at
\* the instant `submitted` in the categories `cats`: the range holds its
\* two bounds
Selects(query, submitted, cats) ==
    /\ InstantLeq(BoundInstant(query.start), submitted)
    /\ InstantLeq(submitted, BoundInstant(query.end))
    /\ query.cat \in Range(cats)

\* no query is built
NoWindow == [pc |-> "idle", first |-> <<>>, date |-> <<>>, query |-> <<>>, seen |-> {}]

\* the two sessions, none of them inside a call
Writers == {1, 2}

Tables == {"categories_meta", "papers", "authors", "paper_authors", "paper_categories"}

NoRows == [t \in Tables |-> {}]

IdleWriter ==
    [pc |-> "idle", r |-> <<>>, at |-> 0, ins |-> NoRows, upd |-> NoRows,
     locks |-> {}, author_ids_order |-> <<>>, calls |-> 0, errors |-> 0,
     res |-> "none"]

NoWriters == [w \in Writers |-> IdleWriter]

\* no import is running
NotImporting ==
    [pc |-> "idle", file |-> <<>>, k |-> 0, L |-> Loaded(EmptyDB), faults |-> 0,
     since |-> 0, commits |-> <<>>, errors |-> <<>>]

\* fetch_papers_by_category is not called
NoStack ==
    [pc |-> "idle", batch_size |-> 0, cap |-> 0, available |-> 0,
     frames |-> <<>>, attempts |-> 0, papers |-> <<>>]

\* download_papers_from_json is not called
NoPool ==
    [pc |-> "idle", download_tasks |-> <<>>, workers |-> <<>>, files |-> <<>>,
     successful |-> 0, failed |-> <<>>, counted |-> {}]

InitStore ==
    /\ categories_meta = {}
    /\ papers = {}
    /\ authors = {}
    /\ paper_authors = {}
    /\ paper_categories = {}
    /\ history = <<>>
    /\ recording = TRUE

\* the variables of fetch_daily_papers_to_db before a run, but pc
InitRun ==
    /\ db_conn = "none"
    /\ ci = 1
    /\ failures = 0
    /\ inserted_count = 0
    /\ results_list = <<>>
    /\ papers_processed_in_this_attempt = 0
    /\ count = 0
    /\ total_inserted_papers_for_day = 0
    /\ responses = 0
    /\ attempts = 0
    /\ sleeps = 0
    /\ outcome = "none"
    /\ fetched = <<>>
    /\ exhausted = {}
    /\ failed = {}
    /\ paused = <<>>

\* the variables of main() before the process starts, but mpc and argv
InitDriver ==
    /\ target_dates_dt_list = <<>>
    /\ day_i = 0
    /\ total_inserted_across_all_days = 0
    /\ days_run = <<>>
    /\ day_counts = <<>>
    /\ day_pauses = <<>>
    /\ startup = "pending"

\* The functions are called on their own: insert_paper_data, the
\* pre-population and the import on the store, fetch_daily_papers_to_db
\* for one date.
Init ==
    /\ InitStore
    /\ InitRun
    /\ InitDriver
    /\ pc = "start"
    /\ faults = 0
    /\ catalog = "any"
    /\ killed = <<>>
    /\ imp = NotImporting
    /\ win = NoWindow
    /\ writers = NoWriters
    /\ stack = NoStack
    /\ pool = NoPool
    /\ mpc = "function"
    /\ argv = NoArgv

(***************************************************************************)
(* The operations on the store, called on their own.                       *)
(***************************************************************************)
\* one call of insert_paper_data on an open connection
InsertPaperData ==
    \E r \in Records : \E fault \in Faults(r) :
        LET out == insert_paper_data(DB, "open", r, fault)
        IN  /\ SetDB(out.db)
            /\ Record(Call(r, fault, out.res))
            /\ UNCHANGED <<fetch, process>>

\* the __main__ block: INSERT the known categories ON CONFLICT DO NOTHING,
\* commit; a psycopg2.Error is printed and the transaction rolled back
PrePopulate ==
    \E ok \in BOOLEAN :
        /\ categories_meta' =
              IF ok THEN InsertCategoriesMeta(categories_meta, PrePopulateRows)
              ELSE categories_meta
        /\ UNCHANGED <<papers, authors, paper_authors, paper_categories>>
        /\ Record([op |-> "prepopulate", rec |-> <<>>, kind |-> "none",
                   res |-> IF ok THEN "True" ELSE "False"])
        /\ UNCHANGED <<fetch, process>>

\* one run of db_tools/import_arxiv.py, the only writer while it runs
ImportArxiv ==
    \E file \in ImportFiles : \E fault \in ImportFaults(file) :
        /\ SetDB(import_arxiv_main(DB, file, fault))
        /\ Record([op |-> "import_arxiv", rec |-> <<>>,
                   kind |-> IF fault.paper = 0 /\ ~fault.flush THEN "none" ELSE "error",
                   res |-> "None"])
        /\ UNCHANGED <<fetch, process>>

Next ==
    \/ InsertPaperData
    \/ PrePopulate
    \/ ImportArxiv

Spec == Init /\ [][Next]_vars

\* period_fetcher.py alone on the store: the pre-population and the applies
NextApply ==
    \/ InsertPaperData
    \/ PrePopulate

SpecApply == Init /\ [][NextApply]_vars

\* insert_paper_data on records whose author lists hold the empty name
BlankNames == {"", "X", "Y"}

RecordsWithBlankNames ==
    {[r EXCEPT !.authors = names] :
        r \in FetchRecords, names \in SeqsUpTo(BlankNames, MaxAuthors)}

InsertPaperDataWithBlankNames ==
    \E r \in RecordsWithBlankNames : \E fault \in Faults(r) :
        /\ SetDB(insert_paper_data(DB, "open", r, fault).db)
        /\ UNCHANGED <<history, recording, fetch, process>>

SpecBlankNames == Init /\ [][InsertPaperDataWithBlankNames]_vars

(***************************************************************************)
(* One run of fetch_daily_papers_to_db.                                    *)
(***************************************************************************)
\* what fetch_papers_by_category_to_db returns, and how it ended
Return(n, how) ==
    /\ count' = n
    /\ outcome' = how
    /\ pc' = "returned"

\* db_conn = get_db_connection(): the connection, or sys.exit(1)
Connect ==
    /\ pc = "start"
    /\ \/ /\ db_conn' = "open"
          /\ pc' = "category"
          /\ UNCHANGED faults
       \/ /\ faults < MaxFaults
          /\ faults' = faults + 1
          /\ db_conn' = "none"
          /\ pc' = "exited"
    /\ UNCHANGED <<store, history, recording, process, ci, call, count,
                   total_inserted_papers_for_day, responses, outcome, fetched,
                   exhausted, failed>>

\* the call fetch_papers_by_category_to_db(category, ...) begins
BeginFetch ==
    /\ pc = "category"
    /\ failures' = 0
    /\ inserted_count' = 0
    /\ results_list' = <<>>
    /\ papers_processed_in_this_attempt' = 0
    /\ attempts' = 0
    /\ sleeps' = 0
    /\ fetched' = Append(fetched, Schedule[ci].category)
    /\ pc' = "attempt"
    /\ UNCHANGED <<store, history, recording, process, db_conn, ci, count,
                   total_inserted_papers_for_day, faults, responses, outcome,
                   exhausted, failed>>

\* one pass of the while loop up to the end of list(results_generator):
\* the query returns what the client yields of the feed
QueryReturns ==
    /\ pc = "attempt"
    /\ failures < max_api_call_failures
    /\ attempts' = attempts + 1
    /\ \E feed \in Feeds(catalog, Schedule[ci].category, responses) :
       \E l \in {ClientResults(feed, Schedule[ci].max_t)} :
          /\ responses' = IF l = <<>> THEN responses ELSE responses + 1
          /\ results_list' = l
          /\ IF Len(l) = 0
             THEN Return(0, "empty")
             ELSE /\ pc' = "process"
                  /\ UNCHANGED <<count, outcome>>
    /\ papers_processed_in_this_attempt' = 0
    /\ UNCHANGED <<store, history, recording, process, db_conn, ci, failures, inserted_count,
                   sleeps, total_inserted_papers_for_day, faults, fetched,
                   exhausted, failed>>

\* a handler that sleeps after every HTTP failure, the third included
QueryHTTPError_SleepsAfterThird ==
    /\ pc = "attempt"
    /\ failures < max_api_call_failures
    /\ faults < MaxFaults
    /\ faults' = faults + 1
    /\ attempts' = attempts + 1
    /\ failures' = failures + 1
    /\ failed' = failed \cup {"http"}
    /\ sleeps' = sleeps + 1
    /\ IF failures + 1 < max_api_call_failures
       THEN UNCHANGED <<pc, count, outcome, exhausted>>
       ELSE /\ Return(inserted_count, "exhausted")
            /\ exhausted' = exhausted \cup {Schedule[ci].category}
    /\ UNCHANGED <<store, history, recording, process, db_conn, ci, inserted_count,
                   results_list, papers_processed_in_this_attempt,
                   total_inserted_papers_for_day, responses, fetched>>

\* a handler that raises the third HTTP failure to its caller, which has
\* no handler
QueryHTTPError_RaisesAtThird ==
    /\ pc = "attempt"
    /\ failures < max_api_call_failures
    /\ faults < MaxFaults
    /\ faults' = faults + 1
    /\ attempts' = attempts + 1
    /\ failures' = failures + 1
    /\ failed' = failed \cup {"http"}
    /\ IF failures + 1 < max_api_call_failures
       THEN /\ sleeps' = sleeps + 1
            /\ UNCHANGED <<pc, count, outcome, exhausted>>
       ELSE /\ pc' = "crashed"
            /\ exhausted' = exhausted \cup {Schedule[ci].category}
            /\ UNCHANGED <<sleeps, count, outcome>>
    /\ UNCHANGED <<store, history, recording, process, db_conn, ci, inserted_count,
                   results_list, papers_processed_in_this_attempt,
                   total_inserted_papers_for_day, responses, fetched>>

\* a client whose results are read while they are applied: the HTTP failure
\* can come between two applies, and the next pass of the loop starts with
\* the records of the failed pass counted
QueryHTTPError_WhileProcessing ==
    /\ pc \in {"attempt", "process"}
    /\ failures < max_api_call_failures
    /\ faults < MaxFaults
    /\ faults' = faults + 1
    /\ attempts' = attempts + 1
    /\ failures' = failures + 1
    /\ failed' = failed \cup {"http"}
    /\ IF failures + 1 < max_api_call_failures
       THEN /\ sleeps' = sleeps + 1
            /\ pc' = "attempt"
            /\ UNCHANGED <<count, outcome, exhausted>>
       ELSE /\ Return(inserted_count, "exhausted")
            /\ exhausted' = exhausted \cup {Schedule[ci].category}
            /\ UNCHANGED sleeps
    /\ UNCHANGED <<store, history, recording, process, db_conn, ci, inserted_count,
                   results_list, papers_processed_in_this_attempt,
                   total_inserted_papers_for_day, responses, fetched>>

\* the query raises arxiv.HTTPError: count it, then sleep 15 s and go round
\* the loop again, or give up at the third
QueryHTTPError ==
    /\ pc = "attempt"
    /\ failures < max_api_call_failures
    /\ faults < MaxFaults
    /\ faults' = faults + 1
    /\ attempts' = attempts + 1
    /\ failures' = failures + 1
    /\ failed' = failed \cup {"http"}
    /\ IF failures + 1 < max_api_call_failures
       THEN /\ sleeps' = sleeps + 1
            /\ UNCHANGED <<pc, count, outcome, exhausted>>
       ELSE /\ Return(inserted_count, "exhausted")
            /\ exhausted' = exhausted \cup {Schedule[ci].category}
            /\ UNCHANGED sleeps
    /\ UNCHANGED <<store, history, recording, process, db_conn, ci, inserted_count,
                   results_list, papers_processed_in_this_attempt,
                   total_inserted_papers_for_day, responses, fetched>>

\* a handler that treats every exception as the transient one: sleep, retry
QueryOtherError_SleepsAndRetries ==
    /\ pc = "attempt"
    /\ failures < max_api_call_failures
    /\ faults < MaxFaults
    /\ faults' = faults + 1
    /\ attempts' = attempts + 1
    /\ failed' = failed \cup {"other"}
    /\ sleeps' = sleeps + 1
    /\ UNCHANGED <<pc, count, outcome>>
    /\ UNCHANGED <<store, history, recording, process, db_conn, ci, failures, inserted_count,
                   results_list, papers_processed_in_this_attempt,
                   total_inserted_papers_for_day, responses, fetched, exhausted>>

\* the query raises any other exception: return the count so far
QueryOtherError ==
    /\ pc = "attempt"
    /\ failures < max_api_call_failures
    /\ faults < MaxFaults
    /\ faults' = faults + 1
    /\ attempts' = attempts + 1
    /\ failed' = failed \cup {"other"}
    /\ Return(inserted_count, "aborted")
    /\ UNCHANGED <<store, history, recording, process, db_conn, ci, failures, inserted_count,
                   results_list, papers_processed_in_this_attempt, sleeps,
                   total_inserted_papers_for_day, responses, fetched, exhausted>>

\* a for loop outside any try: what insert_paper_data raises ends the run
ProcessResult_Propagates ==
    /\ pc = "process"
    /\ LET r == results_list[papers_processed_in_this_attempt + 1]
       IN  \E fault \in Faults(r) :
           \E out \in {insert_paper_data(DB, db_conn, r, fault)} :
             LET n   == IF out.res = "True" THEN inserted_count + 1 ELSE inserted_count
                 injected == fault # NoFault /\ db_conn = "open"
             IN  /\ fault # NoFault => (faults < MaxFaults /\ db_conn = "open")
                 /\ faults' = IF injected THEN faults + 1 ELSE faults
                 /\ SetDB(out.db)
                 /\ db_conn' = out.conn
                 /\ inserted_count' = n
                 /\ failed' = failed \cup
                       (IF out.res = "False" THEN {"store returned False"}
                        ELSE IF out.res = "raised" THEN {"store raised"}
                        ELSE {})
                 /\ IF out.res = "raised"
                    THEN /\ pc' = "crashed"
                         /\ UNCHANGED <<papers_processed_in_this_attempt, count, outcome>>
                    ELSE /\ papers_processed_in_this_attempt' =
                               papers_processed_in_this_attempt + 1
                         /\ IF papers_processed_in_this_attempt + 1 = Len(results_list)
                            THEN Return(n, "ok")
                            ELSE UNCHANGED <<pc, count, outcome>>
    /\ UNCHANGED <<history, recording, process, ci, failures, results_list, attempts, sleeps,
                   total_inserted_papers_for_day, responses, fetched, exhausted>>

\* one pass of the for loop over results_list: insert_paper_data(db_conn, result)
ProcessResult ==
    /\ pc = "process"
    /\ LET r == results_list[papers_processed_in_this_attempt + 1]
       IN  \E fault \in Faults(r) :
           \E out \in {insert_paper_data(DB, db_conn, r, fault)} :
             LET n   == IF out.res = "True" THEN inserted_count + 1 ELSE inserted_count
                 injected == fault # NoFault /\ db_conn = "open"
             IN  /\ fault # NoFault => (faults < MaxFaults /\ db_conn = "open")
                 /\ faults' = IF injected THEN faults + 1 ELSE faults
                 /\ SetDB(out.db)
                 /\ db_conn' = out.conn
                 /\ inserted_count' = n
                 /\ failed' = failed \cup
                       (IF out.res = "False" THEN {"store returned False"}
                        ELSE IF out.res = "raised" THEN {"store raised"}
                        ELSE {})
                 /\ IF out.res = "raised"
                    THEN \* caught by except Exception of the while loop
                         /\ Return(n, "aborted")
                         /\ UNCHANGED papers_processed_in_this_attempt
                    ELSE /\ papers_processed_in_this_attempt' =
                               papers_processed_in_this_attempt + 1
                         /\ IF papers_processed_in_this_attempt + 1 = Len(results_list)
                            THEN Return(n, "ok")
                            ELSE UNCHANGED <<pc, count, outcome>>
    /\ UNCHANGED <<history, recording, process, ci, failures, results_list, attempts, sleeps,
                   total_inserted_papers_for_day, responses, fetched, exhausted>>

\* a loop that pauses after every category
Collect_AlwaysPauses ==
    /\ pc = "returned"
    /\ total_inserted_papers_for_day' = total_inserted_papers_for_day + count
    /\ pc' = "pause"
    /\ UNCHANGED ci
    /\ UNCHANGED <<store, history, recording, process, db_conn, call, count, faults,
                   responses, outcome, fetched, exhausted, failed>>

\* back in fetch_daily_papers_to_db: add the count, take the next category
\* of the group or go to the pause that follows the group
Collect ==
    /\ pc = "returned"
    /\ total_inserted_papers_for_day' = total_inserted_papers_for_day + count
    /\ IF Schedule[ci].ends_group
       THEN pc' = "pause" /\ UNCHANGED ci
       ELSE pc' = "category" /\ ci' = ci + 1
    /\ UNCHANGED <<store, history, recording, process, db_conn, call, count, faults,
                   responses, outcome, fetched, exhausted, failed>>

\* time.sleep(sleep_t) after the group, then the next group, the next tier
\* or the end of the loops
GroupPause ==
    /\ pc = "pause"
    /\ paused' = Append(paused, [after |-> Schedule[ci].category,
                                 seconds |-> Schedule[ci].sleep_t])
    /\ IF ci = Len(Schedule)
       THEN pc' = "statistics" /\ UNCHANGED ci
       ELSE pc' = "category" /\ ci' = ci + 1
    /\ UNCHANGED <<store, history, recording, world, driver, db_conn, call, count,
                   total_inserted_papers_for_day, faults, responses, outcome,
                   fetched, exhausted, failed>>

\* generate_db_statistics(db_conn, ...): two SELECTs outside any try; an
\* error of the store ends the process with a traceback
Statistics ==
    /\ pc = "statistics"
    /\ \/ /\ db_conn = "open"
          /\ pc' = "close"
          /\ UNCHANGED <<faults, db_conn>>
       \/ /\ db_conn = "open"
          /\ faults < MaxFaults
          /\ faults' = faults + 1
          /\ db_conn' = "closed"
          /\ pc' = "crashed"
       \/ /\ db_conn = "closed"
          /\ pc' = "crashed"
          /\ UNCHANGED <<faults, db_conn>>
    /\ UNCHANGED <<store, history, recording, process, ci, call, count,
                   total_inserted_papers_for_day, responses, outcome, fetched,
                   exhausted, failed>>

\* db_conn.close(); return total_inserted_papers_for_day
Close ==
    /\ pc = "close"
    /\ db_conn' = "closed"
    /\ pc' = "done"
    /\ UNCHANGED <<store, history, recording, process, ci, call, count,
                   total_inserted_papers_for_day, faults, responses, outcome,
                   fetched, exhausted, failed>>

NextFetch ==
    \/ Connect
    \/ BeginFetch
    \/ QueryReturns
    \/ QueryHTTPError
    \/ QueryOtherError
    \/ ProcessResult
    \/ Collect
    \/ GroupPause
    \/ Statistics
    \/ Close

SpecFetch == Init /\ [][NextFetch]_vars

\* The run is sequential code: a step that can be taken is taken.
FairSpecFetch == SpecFetch /\ WF_vars(NextFetch)

(***************************************************************************)
(* The process: python period_fetcher.py start_date [--end_date ...].      *)
(***************************************************************************)
\* the faults of the store and the catalog one process meets at most
MainFaults == 1

\* time.sleep(inter_day_pause_seconds)
inter_day_pause_seconds == 10

\* The process starts in the __main__ block with the arguments argv; no
\* run of fetch_daily_papers_to_db is in progress (pc = "idle").
InitMain ==
    /\ InitStore
    /\ InitRun
    /\ InitDriver
    /\ pc = "idle"
    /\ faults = MaxFaults - MainFaults
    /\ catalog = "any"
    /\ killed = <<>>
    /\ imp = NotImporting
    /\ win = NoWindow
    /\ writers = NoWriters
    /\ stack = NoStack
    /\ pool = NoPool
    /\ mpc = "__main__"
    /\ argv \in Argvs

\* The __main__ block before main(): get_db_connection() (sys.exit(1) when
\* the store cannot be reached), INSERT the known categories, commit; a
\* psycopg2.Error is printed and rolled back, and when the rollback raises
\* too the process ends with a traceback.
MainPrePopulate ==
    /\ mpc = "__main__"
    /\ \/ /\ categories_meta' = InsertCategoriesMeta(categories_meta, PrePopulateRows)
          /\ mpc' = "main"
          /\ UNCHANGED <<faults, startup>>
       \/ /\ faults < MaxFaults
          /\ faults' = faults + 1
          /\ UNCHANGED categories_meta
          /\ \/ mpc' = "main" /\ UNCHANGED startup
             \/ mpc' = "exit_1" /\ startup' = "prepopulate"
    /\ UNCHANGED <<papers, authors, paper_authors, paper_categories, history,
                   recording, world, paused, argv, target_dates_dt_list, day_i,
                   total_inserted_across_all_days, days_run, day_counts,
                   day_pauses, pc, db_conn, ci, call, count,
                   total_inserted_papers_for_day, responses, outcome, fetched,
                   exhausted, failed>>

\* main() up to the list of dates: sys.exit(1) on a date that does not
\* parse, on start > end and on an empty list
ParseArgs ==
    /\ mpc = "main"
    /\ \E t \in {TargetDates(argv.start_date, argv.end_date, argv.today)} :
          IF t.exit = 1
          THEN /\ mpc' = "exit_1"
               /\ startup' = "dates"
               /\ UNCHANGED target_dates_dt_list
          ELSE /\ mpc' = "check"
               /\ target_dates_dt_list' = t.dates
               /\ UNCHANGED startup
    /\ UNCHANGED <<store, history, recording, fetch, world, paused, argv, day_i,
                   total_inserted_across_all_days, days_run, day_counts, day_pauses>>

\* a connection check that goes on to the dates when the store cannot be reached
ConnCheck_Continues ==
    /\ mpc = "check"
    /\ \/ /\ startup' = "passed"
          /\ UNCHANGED faults
       \/ /\ faults < MaxFaults
          /\ faults' = faults + 1
          /\ startup' = "store"
    /\ mpc' = "loop"
    /\ day_i' = 0
    /\ total_inserted_across_all_days' = 0
    /\ UNCHANGED <<store, history, recording, world, paused, argv,
                   target_dates_dt_list, days_run, day_counts, day_pauses, pc,
                   db_conn, ci, call, count, total_inserted_papers_for_day,
                   responses, outcome, fetched, exhausted, failed>>

\* the database connection check: get_db_connection() and close(), or
\* sys.exit(1); then total_inserted_across_all_days = 0 and the loop
ConnCheck ==
    /\ mpc = "check"
    /\ \/ /\ startup' = "passed"
          /\ mpc' = "loop"
          /\ day_i' = 0
          /\ total_inserted_across_all_days' = 0
          /\ UNCHANGED faults
       \/ /\ faults < MaxFaults
          /\ faults' = faults + 1
          /\ startup' = "store"
          /\ mpc' = "exit_1"
          /\ UNCHANGED <<day_i, total_inserted_across_all_days>>
    /\ UNCHANGED <<store, history, recording, world, paused, argv,
                   target_dates_dt_list, days_run, day_counts, day_pauses, pc,
                   db_conn, ci, call, count, total_inserted_papers_for_day,
                   responses, outcome, fetched, exhausted, failed>>

\* the variables of a run of fetch_daily_papers_to_db as the call begins
BeginRun ==
    /\ pc' = "start"
    /\ db_conn' = "none"
    /\ ci' = 1
    /\ failures' = 0
    /\ inserted_count' = 0
    /\ results_list' = <<>>
    /\ papers_processed_in_this_attempt' = 0
    /\ count' = 0
    /\ total_inserted_papers_for_day' = 0
    /\ responses' = 0
    /\ attempts' = 0
    /\ sleeps' = 0
    /\ outcome' = "none"
    /\ fetched' = <<>>
    /\ exhausted' = {}
    /\ failed' = {}
    /\ paused' = <<>>

\* the loop takes target_dates_dt_list[i] and calls fetch_daily_papers_to_db
StartDay ==
    /\ mpc = "loop"
    /\ day_i < Len(target_dates_dt_list)
    /\ days_run' = Append(days_run, target_dates_dt_list[day_i + 1])
    /\ mpc' = "day"
    /\ BeginRun
    /\ UNCHANGED <<store, history, recording, faults, world, argv,
                   target_dates_dt_list, day_i, total_inserted_across_all_days,
                   day_counts, day_pauses, startup>>

\* a loop that pauses after every day, the last included
EndDay_AlwaysPauses ==
    /\ mpc = "day"
    /\ pc = "done"
    /\ total_inserted_across_all_days' =
          total_inserted_across_all_days + total_inserted_papers_for_day
    /\ day_counts' = Append(day_counts, total_inserted_papers_for_day)
    /\ pc' = "idle"
    /\ mpc' = "pause"
    /\ UNCHANGED day_i
    /\ UNCHANGED <<store, history, recording, world, paused, argv,
                   target_dates_dt_list, days_run, day_pauses, startup, db_conn,
                   ci, call, count, total_inserted_papers_for_day, faults,
                   responses, outcome, fetched, exhausted, failed>>

\* fetch_daily_papers_to_db returned: add inserted_for_day to the total,
\* then the pause when another day follows, or the next turn of the loop
EndDay ==
    /\ mpc = "day"
    /\ pc = "done"
    /\ total_inserted_across_all_days' =
          total_inserted_across_all_days + total_inserted_papers_for_day
    /\ day_counts' = Append(day_counts, total_inserted_papers_for_day)
    /\ pc' = "idle"
    /\ IF Len(target_dates_dt_list) > 1 /\ day_i < Len(target_dates_dt_list) - 1
       THEN mpc' = "pause" /\ UNCHANGED day_i
       ELSE mpc' = "loop" /\ day_i' = day_i + 1
    /\ UNCHANGED <<store, history, recording, world, paused, argv,
                   target_dates_dt_list, days_run, day_pauses, startup, db_conn,
                   ci, call, count, total_inserted_papers_for_day, faults,
                   responses, outcome, fetched, exhausted, failed>>

\* time.sleep(inter_day_pause_seconds), then the next turn of the loop
DayPause ==
    /\ mpc = "pause"
    /\ day_pauses' = Append(day_pauses, [after |-> day_i,
                                         seconds |-> inter_day_pause_seconds])
    /\ day_i' = day_i + 1
    /\ mpc' = "loop"
    /\ UNCHANGED <<store, history, recording, fetch, world, paused, argv,
                   target_dates_dt_list, total_inserted_across_all_days, days_run,
                   day_counts, startup>>

\* sys.exit(1) in get_db_connection, or an exception of
\* generate_db_statistics, inside fetch_daily_papers_to_db: nothing in
\* main() catches either, the process ends with a non-zero status
DayAborts ==
    /\ mpc = "day"
    /\ pc \in {"exited", "crashed"}
    /\ mpc' = "exit_1"
    /\ UNCHANGED <<store, history, recording, fetch, world, paused, argv,
                   target_dates_dt_list, day_i, total_inserted_across_all_days,
                   days_run, day_counts, day_pauses, startup>>

\* the loop is over: the summary is printed and the process ends, status 0
Complete ==
    /\ mpc = "loop"
    /\ day_i = Len(target_dates_dt_list)
    /\ mpc' = "completed"
    /\ UNCHANGED <<store, history, recording, fetch, world, paused, argv,
                   target_dates_dt_list, day_i, total_inserted_across_all_days,
                   days_run, day_counts, day_pauses, startup>>

NextMain ==
    \/ MainPrePopulate
    \/ ParseArgs
    \/ ConnCheck
    \/ StartDay
    \/ NextFetch
    \/ EndDay
    \/ DayPause
    \/ DayAborts
    \/ Complete

SpecMain == InitMain /\ [][NextMain]_vars

(***************************************************************************)
(* A run of fetch_daily_papers_to_db against a catalog that has more       *)
(* results for a category than the tier takes.                             *)
(***************************************************************************)
InitCap ==
    /\ InitStore
    /\ InitRun
    /\ InitDriver
    /\ pc = "start"
    /\ faults = 0
    /\ catalog = "long"
    /\ killed = <<>>
    /\ imp = NotImporting
    /\ win = NoWindow
    /\ writers = NoWriters
    /\ stack = NoStack
    /\ pool = NoPool
    /\ mpc = "function"
    /\ argv = NoArgv

SpecCap == InitCap /\ [][NextFetch]_vars

(***************************************************************************)
(* db_tools/import_arxiv.py step by step: one step per entry of the file,  *)
(* the flush inside the loop included, and one for the flush after the     *)
(* loop.  imp.k is the position of the entry the loop is at, imp.L the     *)
(* state of the run, imp.since the first entry whose rows sit in the open  *)
(* transaction (0: none); imp.commits and imp.errors are history: the      *)
(* positions the loop committed at, and what raised an error where.        *)
(***************************************************************************)
\* errors one import meets at most
MaxImportFaults == 1

JsonTail(n) == [k \in 1..n |-> JsonNoId]

\* the first paper at the first flush of the loop, the second after it
TwoWindows == JsonTail(FlushEvery - 1) \o <<JsonFirst, JsonSecond>>

\* the first paper, no id up to the 100th entry, the second paper after it
SkippedBoundary == <<JsonFirst>> \o JsonTail(FlushEvery - 1) \o <<JsonSecond>>

StepFiles ==
    SeqsUpTo(JsonPapers, MaxFile)
    \cup {<<JsonEmptyId, JsonSecond>>, <<JsonFirst, JsonEmptyId>>}
    \cup {LongFile, TwoWindows, SkippedBoundary}

\* the stores an import starts on: the empty one, one that holds a record
StartStores ==
    {EmptyDB} \cup {insert_paper_data(EmptyDB, "open", r, NoFault).db : r \in FetchRecords}

InitImport ==
    /\ \E db \in StartStores, file \in StepFiles :
          /\ categories_meta = db.categories_meta
          /\ papers = db.papers
          /\ authors = db.authors
          /\ paper_authors = db.paper_authors
          /\ paper_categories = db.paper_categories
          /\ imp = [NotImporting EXCEPT !.pc = "loop", !.file = file, !.k = 1,
                                        !.L = Loaded(db)]
    /\ history = <<>>
    /\ recording = FALSE
    /\ InitRun
    /\ InitDriver
    /\ pc = "idle"
    /\ faults = 0
    /\ catalog = "any"
    /\ killed = <<>>
    /\ win = NoWindow
    /\ writers = NoWriters
    /\ stack = NoStack
    /\ pool = NoPool
    /\ mpc = "import"
    /\ argv = NoArgv

NoImportFault == [paper |-> 0, flush |-> FALSE]

ImportMoves(L, since, commits, errors) ==
    /\ imp' = [imp EXCEPT !.k = @ + 1, !.L = L, !.since = since,
                          !.commits = commits, !.errors = errors,
                          !.faults = @ + Len(errors) - Len(imp.errors)]
    /\ SetDB(L.committed)
    /\ UNCHANGED <<history, recording, fetch, catalog, killed, win, writers,
                 stack, pool, paused, driver>>

AtEntry == imp.pc = "loop" /\ imp.k <= Len(imp.file)

\* if "id" not in paper or not paper["id"]: continue
ImportSkips ==
    /\ AtEntry
    /\ ~HasId(imp.file[imp.k])
    /\ ImportMoves(ImportPaper(imp.L, imp.file, imp.k, NoImportFault),
                   imp.since, imp.commits, imp.errors)

\* one pass of the loop in which nothing raises
ImportEntry ==
    /\ AtEntry
    /\ HasId(imp.file[imp.k])
    /\ ImportMoves(ImportPaper(imp.L, imp.file, imp.k, NoImportFault),
                   IF imp.k % FlushEvery = 0 THEN 0
                   ELSE IF imp.since = 0 THEN imp.k ELSE imp.since,
                   IF imp.k % FlushEvery = 0 THEN Append(imp.commits, imp.k)
                   ELSE imp.commits,
                   imp.errors)

\* the INSERT of the paper raises psycopg2.Error
ImportEntryFails ==
    /\ AtEntry
    /\ HasId(imp.file[imp.k])
    /\ imp.faults < MaxImportFaults
    /\ ImportMoves(ImportPaper(imp.L, imp.file, imp.k,
                               [paper |-> imp.k, flush |-> FALSE]),
                   0, imp.commits,
                   Append(imp.errors, [at |-> imp.k, what |-> "papers"]))

\* a statement of the flush inside the loop raises psycopg2.Error
ImportFlushFails ==
    /\ AtEntry
    /\ HasId(imp.file[imp.k])
    /\ imp.k % FlushEvery = 0
    /\ imp.faults < MaxImportFaults
    /\ \E j \in 1..Len(FlushStatements) :
          \E L \in {Inserted(imp.L, imp.file, imp.k)} :
              /\ FlushRuns(L, Window(imp.file, imp.k), FlushStatements[j])
              /\ ImportMoves(FlushFails(L, Window(imp.file, imp.k), FlushStatements[j]),
                             0, imp.commits,
                             Append(imp.errors,
                                    [at |-> imp.k, what |-> FlushStatements[j]]))

ImportCloses(db, errors) ==
    /\ imp' = [imp EXCEPT !.pc = "closed", !.L.w = db, !.L.committed = db,
                          !.since = 0, !.errors = errors,
                          !.faults = @ + Len(errors) - Len(imp.errors)]
    /\ SetDB(db)
    /\ UNCHANGED <<history, recording, fetch, catalog, killed, win, writers,
                 stack, pool, paused, driver>>

\* the flush after the loop, and the commit
ImportFinish ==
    /\ imp.pc = "loop"
    /\ imp.k > Len(imp.file)
    /\ ImportCloses(Flush(imp.L, imp.file).committed, imp.errors)

\* the flush after the loop raises: except Exception: conn.rollback()
ImportFinishFails ==
    /\ imp.pc = "loop"
    /\ imp.k > Len(imp.file)
    /\ imp.faults < MaxImportFaults
    /\ ImportCloses(Rollback(imp.L.committed, imp.L.w),
                    Append(imp.errors, [at |-> imp.k, what |-> "final"]))

NextImport ==
    \/ ImportSkips
    \/ ImportEntry
    \/ ImportEntryFails
    \/ ImportFlushFails
    \/ ImportFinish
    \/ ImportFinishFails

SpecImport == InitImport /\ [][NextImport]_vars

(***************************************************************************)
(* The queries of two days in a row, asked about records submitted around  *)
(* the ends of the first day.                                              *)
(***************************************************************************)
WindowDates == { <<2024, 1, 31>>, <<2024, 2, 28>>, <<2023, 12, 31>>, <<2024, 3, 5>> }

WindowCategories == { Code("cs", "AI"), Code("cs", "LG") }

StartOfDay(dt) == dt \o <<0, 0, 0, 0>>
LastSecond(dt) == dt \o <<23, 59, 59, 0>>
EndOfDay(dt)   == dt \o <<23, 59, 59, 999999>>

\* the instants at which the records of the catalog were submitted
Submissions(dt) ==
    { StartOfDay(dt), dt \o <<12, 0, 0, 0>>, LastSecond(dt), EndOfDay(dt),
      StartOfDay(NextDay(dt)), EndOfDay(NextDay(dt)) }

InitWindow ==
    /\ InitStore
    /\ InitRun
    /\ InitDriver
    /\ pc = "idle"
    /\ faults = 0
    /\ catalog = "any"
    /\ killed = <<>>
    /\ imp = NotImporting
    /\ writers = NoWriters
    /\ stack = NoStack
    /\ pool = NoPool
    /\ mpc = "window"
    /\ argv = NoArgv
    /\ \E dt \in WindowDates :
          win = [NoWindow EXCEPT !.pc = "date", !.first = dt, !.date = dt]

WindowMoves == UNCHANGED <<store, history, recording, fetch, catalog, killed, imp,
                           writers, stack, pool, paused, driver>>

\* fetch_papers_by_category_to_db builds its query for the date
BuildQuery ==
    /\ win.pc = "date"
    /\ \E category \in WindowCategories :
          win' = [win EXCEPT !.pc = "query",
                             !.query = DateQuery(category, strftime(win.date))]
    /\ WindowMoves

\* the catalog is asked about a record of the category submitted at t
QuerySelects ==
    /\ win.pc = "query"
    /\ \E t \in Submissions(win.first) :
          win' = [win EXCEPT !.seen = @ \cup
                     {[date |-> win.date, submitted |-> t,
                       selected |-> Selects(win.query, t, <<win.query.cat>>)]}]
    /\ WindowMoves

\* main() goes on to the day after
NextDate ==
    /\ win.pc = "query"
    /\ win.date = win.first
    /\ win' = [win EXCEPT !.pc = "date", !.date = NextDay(win.date)]
    /\ WindowMoves

NextWindow ==
    \/ BuildQuery
    \/ QuerySelects
    \/ NextDate

SpecWindow == InitWindow /\ [][NextWindow]_vars

(***************************************************************************)
(* Two sessions call insert_paper_data at the same time, each in its own   *)
(* transaction (READ COMMITTED): a statement sees the committed rows and   *)
(* the rows of its own transaction; a row a transaction inserted or        *)
(* updated is locked until the transaction ends, and a statement that      *)
(* conflicts with a locked row waits.  writers[w].ins are the rows the     *)
(* transaction of w inserted, .upd the committed rows it changed.          *)
(***************************************************************************)
\* calls of one session, errors raised to one session
MaxCalls == 1
MaxWriterFaults == 1

\* records that share the paper, or an author, or a category
ConcurrentRecords ==
    FetchRecords
    \cup {[entry_id |-> <<"http:", "", "arxiv.org", "abs", "2401.00001">>,
           meta |-> Revision, authors |-> <<"Y", "X">>,
           categories |-> <<Code("cs", "LG")>>],
          [entry_id |-> <<"http:", "", "arxiv.org", "abs", "2401.00002">>,
           meta |-> FirstSighting, authors |-> <<"Y", "X">>,
           categories |-> <<Code("cs", "LG"), Code("cs", "AI")>>]}

\* the unique key of a row
KeyOf(t, row) ==
    CASE t = "categories_meta" -> <<t, row.category_code>>
      [] t = "papers" -> <<t, row.id>>
      [] t = "authors" -> <<t, row.name>>
      [] t = "paper_authors" -> <<t, row.paper_id, row.author_id>>
      [] t = "paper_categories" -> <<t, row.paper_id, row.category_code>>

KeysOf(db, t) == {KeyOf(t, row) : row \in db[t]}

Keys(db) == UNION {KeysOf(db, t) : t \in Tables}

\* the tables a statement of the transaction tx sees, and the committed
\* tables when tx commits
Overlay(db, tx) ==
    [t \in Tables |->
        {row \in db[t] : KeyOf(t, row) \notin KeysOf(tx.upd, t)}
            \cup tx.upd[t] \cup tx.ins[t]]

\* the keys of the rows a statement proposes
Proposed(tx, stmt) ==
    LET r == tx.r
        id == PaperId(r.entry_id)
    IN  CASE stmt.op = "category" -> {<<"categories_meta", r.meta.primary_category>>}
          [] stmt.op = "paper" -> {<<"papers", id>>}
          [] stmt.op = "author" -> {<<"authors", r.authors[stmt.arg]>>}
          [] stmt.op = "paper_authors" ->
               {<<"paper_authors", id, tx.author_ids_order[j].author_id>> :
                   j \in DOMAIN tx.author_ids_order}
          [] stmt.op = "categories_meta" ->
               {<<"categories_meta", CatMetaData(r)[j].category_code>> :
                   j \in DOMAIN CatMetaData(r)}
          [] stmt.op = "paper_categories" ->
               {<<"paper_categories", id, PaperCatData(r)[j].category_code>> :
                   j \in DOMAIN PaperCatData(r)}
          [] stmt.op = "commit" -> {}

\* ON CONFLICT ... DO UPDATE locks the row it finds
DoUpdate == {"paper", "author", "paper_authors"}

Other(w) == CHOOSE v \in Writers : v # w

\* the statement of w waits for the transaction of the other session
Blocked_Never(w) == FALSE

Blocked(w) ==
    /\ writers[w].pc = "running"
    /\ Proposed(writers[w], Statements(writers[w].r)[writers[w].at])
           \cap writers[Other(w)].locks # {}

\* authors.author_id comes from a sequence that all sessions share
MaxOf(S) == CHOOSE n \in S : \A k \in S : k <= n

SequenceNextval ==
    1 + MaxOf({0} \cup {a.author_id : a \in authors}
                  \cup UNION {{a.author_id : a \in writers[w].ins["authors"]} :
                                 w \in Writers})

\* the transaction of w after its statement at position `at`
Executed(w) ==
    LET tx   == writers[w]
        stmt == Statements(tx.r)[tx.at]
        view == Overlay(DB, tx)
        out  == Execute([db |-> view, author_ids_order |-> tx.author_ids_order,
                         raised |-> FALSE], stmt, tx.r)
        name == tx.r.authors[stmt.arg]
        fresh == stmt.op = "author" /\ ~\E a \in view.authors : a.name = name
        row  == [author_id |-> SequenceNextval, name |-> name]
        db   == IF fresh THEN [view EXCEPT !.authors = @ \cup {row}] ELSE out.db
        ids  == IF fresh
                THEN Append(tx.author_ids_order,
                            [paper_id |-> PaperId(tx.r.entry_id),
                             author_id |-> row.author_id,
                             author_order |-> stmt.arg])
                ELSE out.author_ids_order
    IN  [tx EXCEPT
           !.at = @ + 1,
           !.ins = [t \in Tables |->
                       {x \in db[t] : KeyOf(t, x) \notin KeysOf(DB, t)}],
           !.upd = [t \in Tables |->
                       {x \in db[t] : KeyOf(t, x) \in KeysOf(DB, t) /\ x \notin DB[t]}],
           !.locks = @ \cup
                       IF stmt.op \in DoUpdate THEN Proposed(tx, stmt)
                       ELSE Proposed(tx, stmt) \ Keys(view),
           !.author_ids_order = ids]

\* the sessions start on the empty store or after the pre-population
InitWriters ==
    /\ categories_meta \in {{}, InsertCategoriesMeta({}, PrePopulateRows)}
    /\ papers = {}
    /\ authors = {}
    /\ paper_authors = {}
    /\ paper_categories = {}
    /\ history = <<>>
    /\ recording = FALSE
    /\ InitRun
    /\ InitDriver
    /\ pc = "idle"
    /\ faults = 0
    /\ catalog = "any"
    /\ killed = <<>>
    /\ imp = NotImporting
    /\ win = NoWindow
    /\ writers = NoWriters
    /\ stack = NoStack
    /\ pool = NoPool
    /\ mpc = "writers"
    /\ argv = NoArgv

WriterMoves(w, tx) ==
    /\ writers' = [writers EXCEPT ![w] = tx]
    /\ UNCHANGED <<history, recording, fetch, catalog, killed, imp, win, stack, pool, paused,
                   driver>>

\* insert_paper_data is called on the session w
WriterBegins(w) ==
    /\ writers[w].pc = "idle"
    /\ writers[w].calls < MaxCalls
    /\ \E r \in ConcurrentRecords :
          WriterMoves(w, [writers[w] EXCEPT !.pc = "running", !.r = r, !.at = 1,
                                           !.calls = @ + 1, !.res = "none"])
    /\ UNCHANGED store

\* the next statement of the call, but the commit
WriterExecutes(w) ==
    /\ writers[w].pc = "running"
    /\ Statements(writers[w].r)[writers[w].at].op # "commit"
    /\ ~Blocked(w)
    /\ WriterMoves(w, Executed(w))
    /\ UNCHANGED store

\* conn.commit(); return True
WriterCommits(w) ==
    /\ writers[w].pc = "running"
    /\ Statements(writers[w].r)[writers[w].at].op = "commit"
    /\ SetDB(Overlay(DB, writers[w]))
    /\ WriterMoves(w, [IdleWriter EXCEPT !.r = writers[w].r,
                                         !.calls = writers[w].calls,
                                         !.errors = writers[w].errors,
                                         !.res = "True"])

\* the statement raises psycopg2.Error, as it does when the store ends a
\* deadlock of the two sessions: conn.rollback(); return False
WriterFails(w) ==
    /\ writers[w].pc = "running"
    /\ \/ writers[w].errors < MaxWriterFaults
       \/ Blocked(w) /\ Blocked(Other(w))
    /\ WriterMoves(w, [IdleWriter EXCEPT !.r = writers[w].r,
                                         !.calls = writers[w].calls,
                                         !.errors = writers[w].errors + 1,
                                         !.res = "False"])
    /\ UNCHANGED store

NextWriters ==
    \E w \in Writers :
        \/ WriterBegins(w)
        \/ WriterExecutes(w)
        \/ WriterCommits(w)
        \/ WriterFails(w)

SpecWriters == InitWriters /\ [][NextWriters]_vars

(***************************************************************************)
(* A run of fetch_daily_papers_to_db that is killed, and the run of the    *)
(* same date that follows it.                                              *)
(***************************************************************************)
\* The first run of the date begins, on the empty store, against the
\* catalog of the day; it meets at most MainFaults faults.
InitResume ==
    /\ InitStore
    /\ InitRun
    /\ InitDriver
    /\ pc = "start"
    /\ faults = MaxFaults - MainFaults
    /\ catalog = "day"
    /\ killed = <<>>
    /\ imp = NotImporting
    /\ win = NoWindow
    /\ writers = NoWriters
    /\ stack = NoStack
    /\ pool = NoPool
    /\ mpc = "first"
    /\ argv = NoArgv

\* The process is killed (SIGKILL, KeyboardInterrupt, power) while the run
\* is in progress.  The store keeps what was committed: the statements of
\* a transaction that was open are lost with the connection.
Kill ==
    /\ mpc = "first"
    /\ pc \notin {"done", "exited", "crashed"}
    /\ killed' = <<[at |-> pc, category |-> Schedule[ci].category,
                    applied |-> papers_processed_in_this_attempt]>>
    /\ mpc' = "killed"
    /\ pc' = "killed"
    /\ db_conn' = "closed"
    /\ UNCHANGED <<store, history, recording, catalog, imp, win, writers, stack, pool,
                   paused, argv,
                   target_dates_dt_list, day_i, total_inserted_across_all_days,
                   days_run, day_counts, day_pauses, startup, ci, call, count,
                   total_inserted_papers_for_day, faults, responses, outcome,
                   fetched, exhausted, failed>>

\* a second run that goes on after the category the first run was killed in
Rerun_AfterTheKilledCategory ==
    /\ mpc = "killed"
    /\ mpc' = "rerun"
    /\ pc' = "start"
    /\ db_conn' = "none"
    /\ ci' = LET k == CHOOSE n \in 1..Len(Schedule) :
                          Schedule[n].category = killed[1].category
             IN  IF k < Len(Schedule) THEN k + 1 ELSE k
    /\ UNCHANGED <<call, count, total_inserted_papers_for_day, responses, outcome,
                   fetched, exhausted, failed, paused>>
    /\ faults' = MaxFaults
    /\ UNCHANGED <<store, history, recording, world, argv, target_dates_dt_list,
                   day_i, total_inserted_across_all_days, days_run, day_counts,
                   day_pauses, startup>>

\* fetch_daily_papers_to_db is called again for the same date and meets
\* no fault
Rerun ==
    /\ mpc = "killed"
    /\ mpc' = "rerun"
    /\ BeginRun
    /\ faults' = MaxFaults
    /\ UNCHANGED <<store, history, recording, world, argv, target_dates_dt_list,
                   day_i, total_inserted_across_all_days, days_run, day_counts,
                   day_pauses, startup>>

NextResume ==
    \/ NextFetch
    \/ Kill
    \/ Rerun

SpecResume == InitResume /\ [][NextResume]_vars

(***************************************************************************)
(* Vocabulary of the properties.                                           *)
(***************************************************************************)
Apply(db, r) == insert_paper_data(db, "open", r, NoFault)

PapersWithId(db, id) == {p \in db.papers : p.id = id}

PaperAuthorsOf(db, id) == {x \in db.paper_authors : x.paper_id = id}

PaperCategoriesOf(db, id) == {x \in db.paper_categories : x.paper_id = id}

\* the eight fields ON CONFLICT (id) DO UPDATE names
MutableFields(p) ==
    <<p.title, p.abstract, p.primary_category_code, p.pdf_url,
      p.arxiv_published_at, p.arxiv_updated_at, p.journal_ref, p.doi>>

\* no two rows of a relationship table hold the same pair
NoDuplicatePairs(db) ==
    /\ \A x, y \in db.paper_authors :
          (x.paper_id = y.paper_id /\ x.author_id = y.author_id) => x = y
    /\ \A x, y \in db.paper_categories :
          (x.paper_id = y.paper_id /\ x.category_code = y.category_code) => x = y

\* the PaperAuthor rows that give the authors of list l their positions in l
RowsInOrder(db, id, l) ==
    { [paper_id |-> id, author_id |-> ReturningAuthorId(db.authors, l[i]),
       author_order |-> i] : i \in 1..Len(l) }

NoRepeats(l) == \A i, j \in 1..Len(l) : l[i] = l[j] => i = j

\* l and m list the same authors, each once, in different orders
Reordered(l, m) ==
    /\ NoRepeats(l) /\ NoRepeats(m)
    /\ Range(l) = Range(m)
    /\ l # m

\* the paper of id is stored with exactly the authors of l, in the order of l
StoredWithAuthors(db, id, l) ==
    /\ PapersWithId(db, id) # {}
    /\ \A i \in 1..Len(l) : \E a \in db.authors : a.name = l[i]
    /\ PaperAuthorsOf(db, id) = RowsInOrder(db, id, l)

LastEntry == history[Len(history)]

\* the history is exactly the fault-free calls of records r1 then r2
HistoryIs(r1, r2) ==
    /\ Len(history) = 2
    /\ history[1] = Call(r1, NoFault, "True")
    /\ history[2] = Call(r2, NoFault, "True")

Paper1 == <<"http:", "", "arxiv.org", "abs", "2401.00001">>

(***************************************************************************)
(* C1. Idempotence of the single-record apply: two fault-free calls of     *)
(* insert_paper_data in a row with the same record R leave exactly one     *)
(* Paper row with R's identifier, holding R's values, and no duplicate     *)
(* (paper, author) or (paper, category) pair.  Stated for every record;    *)
(* it fails for a record that names one author twice.                      *)
(***************************************************************************)
C1_IdempotentApply ==
    \A r \in Records :
        ( /\ Len(history) = 2
          /\ \E res1, res2 \in {"True", "False"} :
                /\ history[1] = Call(r, NoFault, res1)
                /\ history[2] = Call(r, NoFault, res2) )
        => /\ Cardinality(PapersWithId(DB, PaperId(r.entry_id))) = 1
           /\ \A p \in PapersWithId(DB, PaperId(r.entry_id)) :
                 MutableFields(p) = MutableFields(PaperRow(r))
           /\ NoDuplicatePairs(DB)

(***************************************************************************)
(* C2. Failure atomicity of the single-record apply: a call in which a     *)
(* statement raises returns False and leaves the five tables as they were. *)
(* It fails on the returned value when the error is a lost connection.     *)
(***************************************************************************)
C2_FailureReturnsFalseAndRollsBack ==
    [][ ( /\ recording'
          /\ Len(history') = Len(history) + 1
          /\ history'[Len(history')].op = "insert_paper_data"
          /\ history'[Len(history')].kind # "none" )
        => ( /\ history'[Len(history')].res = "False"
             /\ store' = store ) ]_vars

(***************************************************************************)
(* C4. Ordinal integrity on reorder: when a paper stored with authors      *)
(* [a1..ak] is applied again with the same authors in another order, each  *)
(* PaperAuthor row of the paper ends with the author's 1-based position in *)
(* the new list, and the paper has as many rows as before.                 *)
(***************************************************************************)
C4_ReorderUpdatesOrdinals ==
    \A r \in Records : \A l \in AuthorLists :
        LET id == PaperId(r.entry_id)
            out == Apply(DB, r)
        IN  (Reordered(l, r.authors) /\ StoredWithAuthors(DB, id, l))
            => /\ out.res = "True"
               /\ PaperAuthorsOf(out.db, id) = RowsInOrder(out.db, id, r.authors)
               /\ Cardinality(PaperAuthorsOf(out.db, id))
                     = Cardinality(PaperAuthorsOf(DB, id))

C4_Witness ==
    \E r1, r2 \in Records :
        /\ HistoryIs(r1, r2)
        /\ r1.entry_id = r2.entry_id
        /\ Reordered(r1.authors, r2.authors)
        /\ Len(r2.authors) = 2
        /\ PaperAuthorsOf(DB, PaperId(r2.entry_id))
              = RowsInOrder(DB, PaperId(r2.entry_id), r2.authors)

(***************************************************************************)
(* C5. End-to-end scenario: from the empty store, applying                 *)
(* {2401.00001, "A", [X, Y], [cs.AI, cs.LG]} and then                      *)
(* {2401.00001, "A revised", [Y, X], [cs.AI]} yields one Paper row titled  *)
(* "A revised", the Author rows X and Y, PaperAuthor = {(Y,1), (X,2)} and  *)
(* PaperCategory = {cs.AI, cs.LG}.                                         *)
(***************************************************************************)
ScenarioFirst ==
    [entry_id |-> Paper1, meta |-> FirstSighting, authors |-> <<"X", "Y">>,
     categories |-> <<Code("cs", "AI"), Code("cs", "LG")>>]

ScenarioSecond ==
    [entry_id |-> Paper1, meta |-> Revision, authors |-> <<"Y", "X">>,
     categories |-> <<Code("cs", "AI")>>]

C5_Scenario ==
    HistoryIs(ScenarioFirst, ScenarioSecond)
    => /\ Cardinality(papers) = 1
       /\ \A p \in papers : p.id = "2401.00001" /\ p.title = "A revised"
       /\ Cardinality(authors) = 2
       /\ {a.name : a \in authors} = {"X", "Y"}
       /\ paper_authors = RowsInOrder(DB, "2401.00001", <<"Y", "X">>)
       /\ paper_categories =
             { [paper_id |-> "2401.00001", category_code |-> Code("cs", "AI")],
               [paper_id |-> "2401.00001", category_code |-> Code("cs", "LG")] }

C5_Witness ==
    /\ HistoryIs(ScenarioFirst, ScenarioSecond)
    /\ Cardinality(paper_categories) = 2

(***************************************************************************)
(* C6. Last write wins, without merge of nulls and without a timestamp     *)
(* guard: after a successful call on an identifier that is already stored, *)
(* each of the eight mutable fields of the row equals the record's value.  *)
(***************************************************************************)
C6_LastWriteWins ==
    \A r \in Records :
        LET id == PaperId(r.entry_id)
            out == Apply(DB, r)
        IN  (PapersWithId(DB, id) # {} /\ out.res = "True")
            => /\ PapersWithId(out.db, id) # {}
               /\ \A p \in PapersWithId(out.db, id) :
                     MutableFields(p) = MutableFields(PaperRow(r))

\* a revision with None fields and an older timestamp has replaced a first
\* sighting that had values
C6_Witness ==
    \E r1, r2 \in Records :
        /\ HistoryIs(r1, r2)
        /\ r1.entry_id = r2.entry_id
        /\ r1.meta = FirstSighting /\ r2.meta = Revision
        /\ r2.meta.updated < r1.meta.updated
        /\ \E p \in papers :
              /\ p.id = PaperId(r2.entry_id)
              /\ p.doi = NULL /\ p.journal_ref = NULL /\ p.pdf_url = NULL
              /\ p.arxiv_updated_at = r2.meta.updated

\* C3: whatever sequence of single-record applies and batched imports has
\* run, no two rows of authors hold the same name.
C3_AuthorUniqueness ==
    \A a, b \in authors : a.name = b.name => a = b

\* an author that a paper applied on its own and a paper of an imported
\* file both reference, after one operation of each kind
C3_Witness ==
    /\ Len(history) = 2
    /\ {history[1].op, history[2].op} = {"insert_paper_data", "import_arxiv"}
    /\ \E a \in authors :
          \E x, y \in paper_authors :
             /\ x.author_id = a.author_id
             /\ y.author_id = a.author_id
             /\ x.paper_id # y.paper_id

(***************************************************************************)
(* The fetch of one category and the run of the day.                       *)
(***************************************************************************)
\* the call of fetch_papers_by_category_to_db in progress or just returned
InCall == pc \in {"attempt", "process", "returned"}

\* C7: one call of fetch_papers_by_category_to_db issues at most 3 queries
\* and then returns; it has slept 15 s once after the first HTTP failure,
\* twice after the second and still twice after the third.
C7_RetryBound ==
    /\ [](InCall => /\ attempts <= 3
                    /\ failures <= 3
                    /\ sleeps = IF failures < 3 THEN failures ELSE 2)
    /\ (pc = "attempt" ~> pc = "returned")

C7_Witness ==
    /\ pc = "returned"
    /\ outcome = "exhausted"
    /\ attempts = 3
    /\ failures = 3
    /\ sleeps = 2

\* a category whose call used up its retries while the category after it in
\* the schedule has not been fetched yet
ExhaustedAndNextNotFetched ==
    \E i \in 1..(Len(Schedule) - 1) :
        /\ Schedule[i].category \in exhausted
        /\ Len(fetched) <= i

\* C8: the third consecutive HTTP failure makes the call return its count,
\* and the run goes on to fetch the category that follows in the schedule.
C8_ExhaustionNotFatal ==
    /\ [][(pc = "attempt" /\ failures' = 3 /\ failures = 2)
            => (pc' = "returned" /\ count' = inserted_count)]_vars
    /\ (ExhaustedAndNextNotFetched ~> ~ExhaustedAndNextNotFetched)

C8_Witness ==
    \E i \in 1..(Len(Schedule) - 1) :
        /\ Schedule[i].category \in exhausted
        /\ Len(fetched) > i
        /\ fetched[i + 1] = Schedule[i + 1].category

\* an attempt raises something other than arxiv.HTTPError: the query does
\* (a fault that is not counted as a failure), or insert_paper_data does
\* (on a connection that is closed, or that closes under it)
NonTransientError ==
    \/ pc = "attempt" /\ faults' = faults + 1 /\ failures' = failures
    \/ pc = "process" /\ db_conn' = "closed"

\* C9: an error other than the HTTP error ends the call at once, with the
\* count of records applied so far, without a sleep and without counting as
\* a failure to retry.
C9_NonTransientAborts ==
    [][NonTransientError
         => /\ pc' = "returned"
            /\ outcome' = "aborted"
            /\ count' = inserted_count
            /\ sleeps' = sleeps
            /\ failures' = failures
            /\ attempts' <= attempts + 1]_vars

C9_Witness ==
    /\ pc = "returned"
    /\ outcome = "aborted"
    /\ count > 0
    /\ "store raised" \in failed

\* C10: a run that has its connection fetches every category of the three
\* tiers, in the order of the schedule, whatever failed on the way.
C10_EveryCategoryAttempted ==
    /\ [](\A i \in 1..Len(fetched) : fetched[i] = ALL_CS_CATEGORIES[i])
    /\ [](pc \in {"statistics", "close", "done", "crashed"}
            => fetched = ALL_CS_CATEGORIES)
    /\ (db_conn # "none" ~> fetched = ALL_CS_CATEGORIES)

C10_Witness ==
    /\ pc = "statistics"
    /\ fetched = ALL_CS_CATEGORIES
    /\ db_conn = "closed"
    /\ {"store raised", "other"} \subseteq failed

\* the tier of a category (1 HIGH, 2 MEDIUM, 3 LOW) and its place in the
\* list of its tier
TierOf(c) ==
    IF c \in Range(HIGH_VOLUME_CATEGORIES) THEN 1
    ELSE IF c \in Range(MEDIUM_VOLUME_CATEGORIES) THEN 2 ELSE 3

PlaceIn(l, c) == CHOOSE n \in 1..Len(l) : l[n] = c

PlaceInTier(c) ==
    IF TierOf(c) = 1 THEN PlaceIn(HIGH_VOLUME_CATEGORIES, c)
    ELSE IF TierOf(c) = 2 THEN PlaceIn(MEDIUM_VOLUME_CATEGORIES, c)
    ELSE PlaceIn(LOW_VOLUME_CATEGORIES, c)

TierCategories ==
    Range(HIGH_VOLUME_CATEGORIES) \cup Range(MEDIUM_VOLUME_CATEGORIES)
    \cup Range(LOW_VOLUME_CATEGORIES)

\* the loops over the categories are over
LoopsOver == pc \in {"statistics", "close", "done", "crashed"}

\* C15: in one run every category of the HIGH, MEDIUM and LOW lists is
\* fetched exactly once, HIGH before MEDIUM before LOW and inside a tier in
\* the order of its list (each fetch is later in that order than the one
\* before it), and a fetch begins only when no other is in progress.
C15_ScheduleCoverageAndOrder ==
    /\ [](/\ NoRepeats(fetched)
          /\ Range(fetched) \subseteq TierCategories
          /\ \A n \in 2..Len(fetched) :
                \/ TierOf(fetched[n - 1]) < TierOf(fetched[n])
                \/ /\ TierOf(fetched[n - 1]) = TierOf(fetched[n])
                   /\ PlaceInTier(fetched[n - 1]) < PlaceInTier(fetched[n])
          /\ InCall => Schedule[ci].category = Last(fetched)
          /\ LoopsOver => /\ Range(fetched) = TierCategories
                          /\ Len(fetched) = Len(HIGH_VOLUME_CATEGORIES)
                                            + Len(MEDIUM_VOLUME_CATEGORIES)
                                            + Len(LOW_VOLUME_CATEGORIES))
    /\ [][fetched' # fetched =>
            /\ ~InCall
            /\ pc = "category" /\ pc' = "attempt"
            /\ \E c \in TierCategories : fetched' = Append(fetched, c)]_vars

\* the day is done: 40 fetches, one of which returned records
C15_Witness ==
    /\ pc = "done"
    /\ Len(fetched) = 40
    /\ responses = 1
    /\ total_inserted_papers_for_day > 0

\* the categories that end a group when a list is cut in groups of size,
\* the last group being shorter when the list does not divide
GroupEnds(l, size) ==
    {l[n] : n \in {k \in 1..Len(l) : k % size = 0 \/ k = Len(l)}}

AllGroupEnds ==
    GroupEnds(HIGH_VOLUME_CATEGORIES, 1) \cup GroupEnds(MEDIUM_VOLUME_CATEGORIES, 2)
    \cup GroupEnds(LOW_VOLUME_CATEGORIES, 5)

\* the pause of a tier, in seconds
TierPause(c) == IF TierOf(c) = 1 THEN 5 ELSE IF TierOf(c) = 2 THEN 3 ELSE 2

\* the fetched categories that end a group, in the order they were fetched
GroupEndsFetched == SelectSeq(fetched, LAMBDA c : c \in AllGroupEnds)

\* the pause after the category fetched last is still to come
PauseAhead ==
    /\ pc \in {"attempt", "process", "returned", "pause"}
    /\ Last(fetched) \in AllGroupEnds

PausesOf(seconds) ==
    Cardinality({k \in 1..Len(paused) : paused[k].seconds = seconds})

\* C16: HIGH categories go in groups of 1, MEDIUM of 2, LOW of 5 (the last
\* group of a tier may be shorter); one pause follows every group, 5 s for
\* HIGH, 3 s for MEDIUM, 2 s for LOW, and none falls inside a group: the
\* pauses made so far are, in order, one after each group whose last
\* category has been fetched.  The lists have 4, 8 and 28 categories and a
\* run pauses 4 + 4 + 6 times.
C16_GroupingAndPacing ==
    /\ Len(paused) = Len(GroupEndsFetched) - (IF PauseAhead THEN 1 ELSE 0)
    /\ \A k \in 1..Len(paused) :
          paused[k] = [after |-> GroupEndsFetched[k],
                       seconds |-> TierPause(GroupEndsFetched[k])]
    /\ Len(HIGH_VOLUME_CATEGORIES) = 4
    /\ Len(MEDIUM_VOLUME_CATEGORIES) = 8
    /\ Len(LOW_VOLUME_CATEGORIES) = 28
    /\ LoopsOver => /\ Len(paused) = 4 + 4 + 6
                    /\ PausesOf(5) = 4 /\ PausesOf(3) = 4 /\ PausesOf(2) = 6

\* the loops are over after 14 pauses, in a run that met errors
C16_Witness ==
    /\ pc = "statistics"
    /\ Len(paused) = 14
    /\ failed # {}

\* C17: in one run the records applied to the store for one category are
\* never more than the cap of its tier (500 HIGH, 300 MEDIUM, 150 LOW),
\* whatever the feed holds and however many queries were retried: the list
\* a query returns is no longer than the cap, the calls of
\* insert_paper_data in a call are no more than the list is long, and a
\* call that has gone through its list returns without another query.
C17_PerCategoryCap ==
    /\ [](InCall =>
            LET cap == IF TierOf(Last(fetched)) = 1 THEN 500
                       ELSE IF TierOf(Last(fetched)) = 2 THEN 300 ELSE 150
            IN  /\ Len(results_list) <= cap
                /\ papers_processed_in_this_attempt <= cap
                /\ inserted_count <= papers_processed_in_this_attempt
                /\ count <= cap)
    /\ [][/\ pc = "process" /\ pc' # "process" => pc' = "returned"
          /\ papers_processed_in_this_attempt' # papers_processed_in_this_attempt
                => \/ papers_processed_in_this_attempt' = 0 /\ pc \in {"category", "attempt"}
                   \/ /\ papers_processed_in_this_attempt'
                            = papers_processed_in_this_attempt + 1
                      /\ pc = "process"]_vars

\* the first HIGH category had 501 results; after a query that failed, 500
\* of them were applied
C17_Witness ==
    /\ pc = "returned"
    /\ Last(fetched) = HIGH_VOLUME_CATEGORIES[1]
    /\ attempts = 2
    /\ papers_processed_in_this_attempt = 500
    /\ count = 500

(***************************************************************************)
(* The process and its errors.                                             *)
(***************************************************************************)
\* the process has ended, with which status
ExitedZero == mpc = "completed"
ExitedNonZero == mpc = "exit_1"

\* C11: once the startup checks have passed and fetching has begun, no
\* error of the source or of the store terminates the process: it does not
\* end with a non-zero status, and when it has ended every date of the
\* requested range was processed.
C11_NoErrorTerminatesTheProcess ==
    startup = "passed" =>
        /\ ~ExitedNonZero
        /\ ExitedZero => days_run = target_dates_dt_list

\* the arguments that are not 8-digit calendar dates, and the pairs of
\* arguments whose start is after the end
MalformedDates ==
    { <<"2", "0", "2", "4", "0", "2", "3", "0">>,
      <<"2", "0", "2", "4", "0", "1", "3">>,
      <<"2", "0", "2", "4", "-", "1", "3", "1">>,
      <<"2", "0", "2", "4", "1", "3", "0", "1">> }

StartAfterEnd ==
    /\ argv.start_date = <<"2", "0", "2", "4", "0", "1", "3", "1">>
    /\ \/ argv.end_date = <<"2", "0", "2", "4", "0", "1", "3", "0">>
       \/ argv.end_date = <<"t", "o", "d", "a", "y">> /\ argv.today = <<2024, 1, 30>>

FatalStartupError ==
    \/ argv.start_date \in MalformedDates
    \/ argv.end_date \in MalformedDates
    \/ StartAfterEnd
    \/ startup = "store"

\* no query was sent to the catalog and no record was applied to the store
NothingFetched ==
    /\ days_run = <<>>
    /\ pc = "idle"
    /\ fetched = <<>>
    /\ attempts = 0
    /\ papers = {} /\ authors = {} /\ paper_authors = {} /\ paper_categories = {}

\* C12: with a start or end date that is not an 8-digit calendar date, a
\* start after the end, or a store that cannot be reached at the startup
\* connection check, the process goes nowhere but to its non-zero exit (and
\* its steps towards it can be taken), and no catalog query and no
\* ingestion write has been issued.
C12_FatalStartupErrorsPrecedeFetching ==
    FatalStartupError =>
        /\ NothingFetched
        /\ mpc \in {"__main__", "main", "check", "exit_1"}
        /\ mpc = "check" => startup = "pending"
        /\ mpc = "main" => ENABLED ParseArgs
        /\ mpc = "check" => ENABLED ConnCheck

\* the pre-population ran, the dates were good, the connection check failed
C12_Witness ==
    /\ ExitedNonZero
    /\ startup = "store"
    /\ categories_meta # {}
    /\ Len(target_dates_dt_list) = 2

(***************************************************************************)
(* The dates of the driver.                                                *)
(***************************************************************************)
\* the calendar days of the closed interval the arguments ask for, written
\* out by hand for the arguments with start <= end
RequestedDays ==
    IF argv.start_date # <<"2", "0", "2", "4", "0", "1", "3", "1">> THEN <<>>
    ELSE IF argv.end_date = None THEN << <<2024, 1, 31>> >>
    ELSE IF argv.end_date = <<"t", "o", "d", "a", "y">> /\ argv.today = <<2024, 2, 1>>
         THEN << <<2024, 1, 31>>, <<2024, 2, 1>> >>
    ELSE IF argv.end_date = <<"2", "0", "2", "4", "0", "2", "0", "2">>
         THEN << <<2024, 1, 31>>, <<2024, 2, 1>>, <<2024, 2, 2>> >>
    ELSE <<>>

RECURSIVE Sum(_)
Sum(counts) == IF counts = <<>> THEN 0 ELSE Head(counts) + Sum(Tail(counts))

\* the process has ended after its startup checks had passed
EndedAfterStartup == startup = "passed" /\ (ExitedZero \/ ExitedNonZero)

\* C18: for start <= end the driver calls fetch_daily_papers_to_db once for
\* each calendar day of [start, end], in ascending order and for no other
\* day: the calls made so far are the first days of the interval, a process
\* that has ended has made them all, and its total is the sum of the counts
\* the calls returned.
C18_DateRangeIteration ==
    /\ Len(days_run) <= Len(RequestedDays)
    /\ days_run = SubSeq(RequestedDays, 1, Len(days_run))
    /\ total_inserted_across_all_days = Sum(day_counts)
    /\ EndedAfterStartup => days_run = RequestedDays

\* C19: the driver pauses 10 seconds after each day but the last and before
\* the next day starts: the k-th pause follows day k, a day after the first
\* starts only when the pause after the day before it is over, there is no
\* pause after the last day and none at all for a single day.
C19_InterDayPause ==
    /\ \A k \in 1..Len(day_pauses) :
          day_pauses[k] = [after |-> k - 1, seconds |-> 10]
    /\ Len(day_pauses) < Len(target_dates_dt_list) \/ target_dates_dt_list = <<>>
    /\ mpc = "day" => Len(day_pauses) = Len(days_run) - 1
    /\ mpc = "pause" => Len(day_pauses) = Len(day_counts) - 1
    /\ mpc = "loop" => Len(day_pauses) = IF day_i = Len(target_dates_dt_list)
                                         THEN day_i - 1 ELSE day_i
    /\ ExitedZero => Len(day_pauses) = Len(target_dates_dt_list) - 1

\* three days were run to the end, with the two pauses between them
C19_Witness ==
    /\ ExitedZero
    /\ Len(days_run) = 3
    /\ Len(day_pauses) = 2

(***************************************************************************)
(* Resuming a killed run.                                                  *)
(***************************************************************************)
\* the records a run of the day applies, in the order of the schedule
RECURSIVE DayRecordsFrom(_)
DayRecordsFrom(k) ==
    IF k > Len(Schedule) THEN <<>>
    ELSE ClientResults(DayFeed(Schedule[k].category), Schedule[k].max_t)
         \o DayRecordsFrom(k + 1)

RECURSIVE ApplyAll(_, _)
ApplyAll(db, records) ==
    IF records = <<>> THEN db
    ELSE ApplyAll(insert_paper_data(db, "open", Head(records), NoFault).db,
                  Tail(records))

\* the store after one run of the day that nothing interrupts
Uninterrupted == ApplyAll(EmptyDB, DayRecordsFrom(1))

\* the rows of paper_authors with the author's name for its number
PaperAuthorsByName(db) ==
    { <<x.paper_id, (CHOOSE a \in db.authors : a.author_id = x.author_id).name,
        x.author_order>> : x \in db.paper_authors }

\* the same tables, the authors taken by name
SameContents(a, b) ==
    /\ a.papers = b.papers
    /\ a.categories_meta = b.categories_meta
    /\ a.paper_categories = b.paper_categories
    /\ {x.name : x \in a.authors} = {x.name : x \in b.authors}
    /\ Cardinality(a.authors) = Cardinality(b.authors)
    /\ PaperAuthorsByName(a) = PaperAuthorsByName(b)
    /\ Cardinality(a.paper_authors) = Cardinality(b.paper_authors)

\* C13: when a run for a date was killed at any point and the same date is
\* then run to completion against the same records, the tables end as
\* after one uninterrupted run of the date (authors compared by name).
C13_ResumeSafety ==
    mpc = "rerun" /\ pc = "done" => SameContents(DB, Uninterrupted)

\* the first run was killed with one of the two records of cs.AI applied,
\* and the second run is complete
C13_Witness ==
    /\ mpc = "rerun"
    /\ pc = "done"
    /\ killed = <<[at |-> "process", category |-> Code("cs", "AI"), applied |-> 1]>>
    /\ Cardinality(papers) = 2

(***************************************************************************)
(* No deletion.                                                            *)
(***************************************************************************)
\* the keys of the committed rows
PaperIds == {p.id : p \in papers}
StoredAuthorNames == {a.name : a \in authors}
CategoryCodes == {c.category_code : c \in categories_meta}
PaperAuthorPairs == {<<x.paper_id, x.author_id>> : x \in paper_authors}
PaperCategoryPairs == {<<x.paper_id, x.category_code>> : x \in paper_categories}

OnlyGrows ==
    /\ PaperIds \subseteq PaperIds'
    /\ StoredAuthorNames \subseteq StoredAuthorNames'
    /\ CategoryCodes \subseteq CategoryCodes'
    /\ PaperAuthorPairs \subseteq PaperAuthorPairs'
    /\ PaperCategoryPairs \subseteq PaperCategoryPairs'

\* C14: no step removes a committed row: across every transition the sets
\* of paper identifiers, author names, category codes, (paper, author)
\* pairs and (paper, category) pairs of the store grow or stay as they are.
C14_NoDeletion == [][OnlyGrows]_vars

\* a paper was applied with two authors and then with one of them only,
\* and the pair of the author who was dropped is still there
C14_Witness ==
    \E r1, r2 \in Records :
        /\ HistoryIs(r1, r2)
        /\ r1.entry_id = r2.entry_id
        /\ Len(r1.authors) = 2 /\ Len(r2.authors) = 1
        /\ r1.authors[1] # r1.authors[2]
        /\ Cardinality(PaperAuthorsOf(DB, PaperId(r1.entry_id))) = 2

(***************************************************************************)
(* The batched import and the single-record apply.                         *)
(***************************************************************************)
\* the catalog record that holds what a paper of a file holds
AsRecord(paper) ==
    [entry_id |-> <<"http:", "", "arxiv.org", "abs", paper.id>>,
     meta |-> [title |-> paper.title, summary |-> paper.abstract,
               primary_category |-> paper.primary_category_code,
               pdf_url |-> paper.pdf_url,
               published |-> parse_datetime(paper.arxiv_published_at),
               updated |-> parse_datetime(paper.arxiv_updated_at),
               journal_ref |-> paper.journal_ref, doi |-> paper.doi],
     authors |-> paper.authors,
     categories |-> paper.categories]

AsRecords(file) == [k \in 1..Len(file) |-> AsRecord(file[k])]

\* the files whose papers all have an id, a title, names and codes
WellFormedFiles == {file \in ImportFiles : \A k \in 1..Len(file) : file[k] = JsonFirst}

\* the step is a run of import_arxiv.py on the file that met no error
ImportedFile(file) ==
    /\ Len(history') = Len(history) + 1
    /\ Last(history').op = "import_arxiv"
    /\ Last(history').kind = "none"
    /\ DB' = import_arxiv_main(DB, file, [paper |-> 0, flush |-> FALSE])

\* the same papers, (paper, author, ordinal) and (paper, category) rows
SameIngested(a, b) ==
    /\ a.papers = b.papers
    /\ PaperAuthorsByName(a) = PaperAuthorsByName(b)
    /\ a.paper_categories = b.paper_categories

\* C20: a run of the batched import leaves papers, paper_authors and
\* paper_categories as applying the records of the file one by one with
\* insert_paper_data to the same store would, the store holding one of the
\* identifiers already included.
C20_ImportAsIdempotentAsApply ==
    [][\A file \in WellFormedFiles :
          ImportedFile(file) => SameIngested(DB', ApplyAll(DB, AsRecords(file)))]_vars

(***************************************************************************)
(* The batched import, step by step.                                       *)
(***************************************************************************)
\* the import is over and the connection closed
ImportClosed == imp.pc = "closed"

\* the only error of the run was raised by the statement `what`
OnlyError(what) == Len(imp.errors) = 1 /\ imp.errors[1].what = what

\* the positions of the file before position k that hold an id
WithIdBefore(k) == {j \in 1..Len(imp.file) : j < k /\ HasId(imp.file[j])}

\* C21: when the INSERT of the paper of record R raised the only error of
\* an import, then at the end of the import every record with an id that
\* was processed before R has its row in papers.
C21_PartialFailureIsolation ==
    (ImportClosed /\ OnlyError("papers"))
        => \A j \in WithIdBefore(imp.errors[1].at) : imp.file[j].id \in PaperIds

\* the names and the codes of a paper that are not blank
NamesOf(paper) == {paper.authors[j] : j \in DOMAIN paper.authors} \ {"", NULL}
CodesOf(paper) == Range(TruthyCodes(paper.categories))

\* the paper is committed with its author and category relationships: its
\* row, a paper_authors row to the authors row of each of its names, a
\* paper_categories row to the categories_meta row of each of its codes
CommittedWithRelationships(paper) ==
    /\ paper.id \in PaperIds
    /\ \A n \in NamesOf(paper) :
          \E a \in authors :
              /\ a.name = n
              /\ <<paper.id, a.author_id>> \in PaperAuthorPairs
    /\ \A c \in CodesOf(paper) :
          /\ c \in CategoryCodes
          /\ <<paper.id, c>> \in PaperCategoryPairs

\* a statement of the flush inside the loop raised the only error of the run
OnlyFlushError ==
    \E j \in 1..Len(FlushStatements) : OnlyError(FlushStatements[j])

\* C22: when a flush inside the loop raised the only error of an import,
\* what was committed before the import is still committed, the import went
\* on to its end, and every record with an id in a later window is committed
\* with its author and category relationships.
C22_FlushWindowRollback ==
    (ImportClosed /\ OnlyFlushError)
        => \A j \in 1..Len(imp.file) :
              (j > imp.errors[1].at /\ HasId(imp.file[j]))
                  => CommittedWithRelationships(imp.file[j])

\* C23: at no point of the loop do the rows of more than FlushEvery input
\* records sit in the open transaction: the first entry whose rows are
\* uncommitted is less than FlushEvery entries behind the last entry
\* processed, a skipped entry at the window boundary included.
C23_FlushCadence ==
    (imp.pc = "loop" /\ imp.since # 0) => (imp.k - imp.since <= FlushEvery)

\* the loop is at an entry whose id is missing or empty
AtEntryWithoutId == AtEntry /\ ~HasId(imp.file[imp.k])

\* the loop is at an entry with an id and the pass raises no error
EntryImported ==
    AtEntry /\ HasId(imp.file[imp.k]) /\ imp'.errors = imp.errors

\* the rows of the open transaction with the id of the entry the loop is at
RowsOfEntry(run) == {p \in run.L.w.papers : p.id = imp.file[imp.k].id}

\* C27: an entry whose id is missing or empty writes to no table and to no
\* list of rows, and the loop goes on with the entry after it; in an import
\* without error every entry with an id has a papers row at the end; a paper
\* that is inserted with a missing or empty title gets the title "".
C27_ValidationInImport ==
    /\ [][AtEntryWithoutId
            => /\ DB' = DB
               /\ imp'.L = imp.L
               /\ imp'.pc = "loop" /\ imp'.k = imp.k + 1]_vars
    /\ [][EntryImported
            => /\ RowsOfEntry(imp') # {}
               /\ (RowsOfEntry(imp) = {} /\ Falsy(imp.file[imp.k].title))
                     => \A p \in RowsOfEntry(imp') : p.title = ""]_vars
    /\ []((ImportClosed /\ imp.errors = <<>>)
            => \A j \in 1..Len(imp.file) :
                  HasId(imp.file[j]) => imp.file[j].id \in PaperIds)

\* an entry with an empty id came before the paper without a title, which
\* is in papers with the title ""
C27_Witness ==
    /\ ImportClosed
    /\ imp.file = <<JsonEmptyId, JsonSecond>>
    /\ \E p \in papers : p.id = JsonSecond.id /\ p.title = ""
    /\ PaperIds = {JsonSecond.id}

\* the 1-based position of the name at position q among the names of the
\* list that are not blank
PositionSkippingBlanks(names, q) ==
    Cardinality({j \in 1..q : ~Falsy(names[j])})

\* no authors row for a blank name of the list, and the paper_authors row
\* of every other name holds the position of the name, blank names skipped
OrdinalsSkipBlanks(db, id, names) ==
    \A q \in DOMAIN names :
        IF Falsy(names[q])
        THEN ~\E a \in db.authors : a.name = names[q]
        ELSE \A a \in db.authors, x \in PaperAuthorsOf(db, id) :
                (a.name = names[q] /\ a.author_id = x.author_id)
                    => x.author_order = PositionSkippingBlanks(names, q)

\* the step applies record r and commits
Applied(r) ==
    /\ Apply(DB, r).res = "True"
    /\ DB' = Apply(DB, r).db

\* C28: after a successful apply of a record there is no authors row for a
\* blank name of its author list, and the paper_authors row of each of its
\* other authors holds the author's 1-based position in the list with the
\* blank names skipped.
C28_OrdinalsWithBlankNames ==
    [][\A r \in RecordsWithBlankNames :
          Applied(r) => OrdinalsSkipBlanks(DB', PaperId(r.entry_id), r.authors)]_vars

\* the same for the batched path: when an import that met no error ends,
\* every paper of the file that had no paper_authors row before
BatchedOrdinalsSkipBlanks ==
    [][(imp.pc = "loop" /\ imp'.pc = "closed"
            /\ imp'.errors = <<>> /\ imp.commits = <<>>)
         => \A j \in 1..Len(imp.file) :
               (HasId(imp.file[j]) /\ PaperAuthorsOf(DB, imp.file[j].id) = {})
                   => OrdinalsSkipBlanks(DB', imp.file[j].id, imp.file[j].authors)]_vars

(***************************************************************************)
(* Categories.                                                             *)
(***************************************************************************)
\* C29: no step changes or removes a row of categories_meta, whichever of
\* the pre-population, the apply of a record (primary category, category
\* list) and the import inserts a code that is there already: the row keeps
\* its description; and no two rows hold the same code.
C29_CategoryInsertIdempotent ==
    /\ [][categories_meta \subseteq categories_meta']_vars
    /\ [](\A x, y \in categories_meta :
             x.category_code = y.category_code => x = y)

\* cs.AI was pre-populated, then a record with cs.AI as primary category
\* and in its category list was applied: the row holds the description of
\* the pre-population
C29_Witness ==
    /\ Len(history) = 2
    /\ history[1].op = "prepopulate" /\ history[1].res = "True"
    /\ history[2].op = "insert_paper_data" /\ history[2].res = "True"
    /\ history[2].rec # <<>>
    /\ history[2].rec[1].meta.primary_category = Code("cs", "AI")
    /\ Code("cs", "AI") \in Range(history[2].rec[1].categories)
    /\ \E c \in categories_meta :
          /\ c.category_code = Code("cs", "AI")
          /\ c.description = KnownCategoryDescription(Code("cs", "AI"))

(***************************************************************************)
(* Referential integrity of the single-record path.                        *)
(***************************************************************************)
ReferentialIntegrity ==
    /\ \A x \in paper_authors :
          /\ x.paper_id \in PaperIds
          /\ \E a \in authors : a.author_id = x.author_id
    /\ \A x \in paper_categories :
          /\ x.paper_id \in PaperIds
          /\ x.category_code \in CategoryCodes
    /\ \A p \in papers :
          Truthy(p.primary_category_code) => p.primary_category_code \in CategoryCodes

\* the positions of the statements of kind op in the apply of r
Positions(r, op) == {k \in DOMAIN Statements(r) : Statements(r)[k].op = op}

\* every statement of kind op1 comes before every statement of kind op2
Before(r, op1, op2) ==
    \A j \in Positions(r, op1), k \in Positions(r, op2) : j < k

WrittenInOrder(r) ==
    /\ Truthy(r.meta.primary_category) => Positions(r, "category") # {}
    /\ Before(r, "category", "paper")
    /\ Before(r, "paper", "paper_authors")
    /\ Before(r, "author", "paper_authors")
    /\ Before(r, "paper", "paper_categories")
    /\ Before(r, "categories_meta", "paper_categories")

\* C30: in every committed state that applies and the pre-population reach,
\* every paper_authors row names a papers row and an authors row, every
\* paper_categories row a papers row and a categories_meta row, every
\* non-null primary category of a paper a categories_meta row; and in the
\* apply of any record the category is written before the paper, and the
\* paper, the authors and the categories before the relationship rows.
C30_ReferentialIntegrity ==
    /\ ReferentialIntegrity
    /\ \A r \in Records : WrittenInOrder(r)

\* a paper is stored with a primary category, authors and categories, and
\* an apply failed and was rolled back
C30_Witness ==
    /\ \E p \in papers : Truthy(p.primary_category_code)
    /\ paper_authors # {} /\ paper_categories # {}
    /\ \E k \in DOMAIN history : history[k].res = "False"

(***************************************************************************)
(* The ordinals of paper_authors.                                          *)
(***************************************************************************)
\* every paper_authors row of the paper holds the position that the
\* author of the row has in the list names
OrdinalsFollow(db, id, names) ==
    \A x \in PaperAuthorsOf(db, id) :
        \E q \in DOMAIN names, a \in db.authors :
            /\ a.author_id = x.author_id
            /\ a.name = names[q]
            /\ x.author_order = q

\* the last operation was a successful apply of a record with authors
LastApplied ==
    /\ history # <<>>
    /\ LastEntry.op = "insert_paper_data"
    /\ LastEntry.res = "True"
    /\ LastEntry.rec # <<>>
    /\ LastEntry.rec[1].authors # <<>>

\* C25: after a successful apply of a record, each paper_authors row of
\* its paper holds the position of its author in the author list of that
\* record, an author that was removed from or inserted into the list since
\* the apply before included; and no two rows of a paper hold the same
\* ordinal.
C25_OrdinalInvariant ==
    /\ LastApplied
          => OrdinalsFollow(DB, PaperId(LastEntry.rec[1].entry_id),
                            LastEntry.rec[1].authors)
    /\ \A x, y \in paper_authors :
          (x.paper_id = y.paper_id /\ x.author_order = y.author_order) => x = y

(***************************************************************************)
(* The date window.                                                        *)
(***************************************************************************)
\* the record submitted at t was selected by the query for the date dt
SelectedFor(dt, t) ==
    \E e \in win.seen : e.date = dt /\ e.submitted = t /\ e.selected

\* ... or was asked for and not selected
NotSelectedFor(dt, t) ==
    \E e \in win.seen : e.date = dt /\ e.submitted = t /\ ~e.selected

\* C26: the query for a date D selects the records submitted at D 00:00:00
\* and at D 23:59:59.999999 UTC and not the record submitted at 00:00:00 of
\* the day after; of the queries of two days in a row never both select a
\* record and, for a record submitted on one of the two days, never both
\* leave it out.
C26_DateWindowBoundaries ==
    \A e \in win.seen :
        /\ e.submitted = StartOfDay(e.date) => e.selected
        /\ e.submitted = EndOfDay(e.date) => e.selected
        /\ e.submitted = StartOfDay(NextDay(e.date)) => ~e.selected
        /\ ~(SelectedFor(win.first, e.submitted)
               /\ SelectedFor(NextDay(win.first), e.submitted))
        /\ ~(NotSelectedFor(win.first, e.submitted)
               /\ NotSelectedFor(NextDay(win.first), e.submitted))

(***************************************************************************)
(* Concurrent writers.                                                     *)
(***************************************************************************)
\* the committed tables hold everything the record r says
HoldsRecord(db, r) ==
    LET id == PaperId(r.entry_id)
    IN  /\ \E p \in db.papers :
              p.id = id /\ MutableFields(p) = MutableFields(PaperRow(r))
        /\ \A q \in DOMAIN r.authors :
              \E a \in db.authors :
                  /\ a.name = r.authors[q]
                  /\ [paper_id |-> id, author_id |-> a.author_id, author_order |-> q]
                        \in db.paper_authors
        /\ \A j \in DOMAIN PaperCatData(r) :
              /\ PaperCatData(r)[j] \in db.paper_categories
              /\ \E c \in db.categories_meta :
                    c.category_code = PaperCatData(r)[j].category_code
        /\ Truthy(r.meta.primary_category)
              => \E c \in db.categories_meta : c.category_code = r.meta.primary_category

\* the call of session w ends in this step
CallEnds(w) == writers[w].pc = "running" /\ writers'[w].pc = "idle"

\* one row per key in the committed tables
OneRowPerKey ==
    /\ \A x, y \in papers : x.id = y.id => x = y
    /\ \A x, y \in authors : x.name = y.name => x = y
    /\ \A x, y \in authors : x.author_id = y.author_id => x = y
    /\ NoDuplicatePairs(DB)

\* C24: with two sessions inside insert_paper_data at the same time, in
\* every interleaving of their statements, the committed tables hold at
\* most one papers row per id, one authors row per name, one row per
\* (paper, author) and per (paper, category); a call that returns True has
\* committed all of its record, a call that returns False has changed
\* nothing, and no statement before the commit changes the committed
\* tables.
C24_ConcurrentWriters ==
    /\ []OneRowPerKey
    /\ [][\A w \in Writers :
             /\ (CallEnds(w) /\ writers'[w].res = "True")
                   => HoldsRecord(DB', writers[w].r)
             /\ (CallEnds(w) /\ writers'[w].res # "True") => DB' = DB
             /\ (\A v \in Writers : ~CallEnds(v)) => DB' = DB]_vars

\* both sessions committed: the first paper, with the author lists X, Y
\* and Y, X, after one of them had waited for the other
C24_Witness ==
    /\ \A w \in Writers : writers[w].pc = "idle" /\ writers[w].res = "True"
    /\ PaperId(writers[1].r.entry_id) = PaperId(writers[2].r.entry_id)
    /\ writers[1].r.authors = <<"X", "Y">>
    /\ writers[2].r.authors = <<"Y", "X">>
    /\ Cardinality(authors) = 2

(***************************************************************************)
(* A record that names one author more than once.                          *)
(***************************************************************************)
\* the call at position k of the history met no fault and its record names
\* an author twice
RepeatedAuthorCall(k) ==
    /\ history[k].op = "insert_paper_data"
    /\ history[k].rec # <<>>
    /\ ~NoRepeats(history[k].rec[1].authors)

\* C33: a fault-free call of insert_paper_data with a record whose author
\* list names the same author more than once returns True, and after it
\* the paper is stored with exactly one paper_authors row for that author.
C33_RepeatedAuthorApplied ==
    \A k \in DOMAIN history :
        RepeatedAuthorCall(k)
            => /\ history[k].res = "True"
               /\ k = Len(history)
                     => LET r == history[k].rec[1]
                            id == PaperId(r.entry_id)
                        IN  /\ PapersWithId(DB, id) # {}
                            /\ \A n \in Range(r.authors) :
                                  Cardinality(
                                      {x \in PaperAuthorsOf(DB, id) :
                                          \E a \in authors : a.name = n
                                              /\ a.author_id = x.author_id}) = 1

(***************************************************************************)
(* The order of the inserts in the batched import, read off the open       *)
(* transaction imp.L.w of the run.                                         *)
(***************************************************************************)
\* every papers row of the open transaction has its primary category in
\* categories_meta of the open transaction
PrimaryCategoryPresent ==
    \A p \in imp.L.w.papers :
        Truthy(p.primary_category_code)
            => \E c \in imp.L.w.categories_meta :
                   c.category_code = p.primary_category_code

\* every relationship row of the open transaction names rows that exist
RelationshipsResolved ==
    /\ \A x \in imp.L.w.paper_authors :
          /\ \E p \in imp.L.w.papers : p.id = x.paper_id
          /\ \E a \in imp.L.w.authors : a.author_id = x.author_id
    /\ \A x \in imp.L.w.paper_categories :
          /\ \E p \in imp.L.w.papers : p.id = x.paper_id
          /\ \E c \in imp.L.w.categories_meta :
                 c.category_code = x.category_code

\* C31: at every point of import_arxiv.main, a papers row that was inserted
\* has its primary category code in categories_meta, and a paper_categories
\* or paper_authors row that was inserted names a papers row, a
\* categories_meta row and an authors row that exist.
C31_ForeignKeyOrder ==
    /\ PrimaryCategoryPresent
    /\ RelationshipsResolved

(***************************************************************************)
(* The count a day reports.  The run starts on the empty store, so the new *)
(* papers of the day are the papers the store holds.                       *)
(***************************************************************************)
\* C32: the total of fetch_daily_papers_to_db never exceeds the number of
\* distinct paper identifiers the day has added to the store: a paper that
\* is listed in several fetched categories, or that is already stored, is
\* counted once.
C32_ReportedCount ==
    total_inserted_papers_for_day + (IF pc = "returned" THEN count ELSE 0)
        <= Cardinality(PaperIds)

(***************************************************************************)
(* The applies of one call of fetch_papers_by_category_to_db.              *)
(***************************************************************************)
\* C34: a pass of the while loop of fetch_papers_by_category_to_db begins
\* only while no record has been applied in the call (inserted_count is 0
\* and nothing is processed), the applies of the call are never more than
\* the records the query returned, and the count that is returned never
\* exceeds the number of those records.
C34_NoRecordAppliedTwice ==
    /\ pc = "attempt"
          => inserted_count = 0 /\ papers_processed_in_this_attempt = 0
    /\ pc \in {"process", "returned"}
          => /\ inserted_count <= papers_processed_in_this_attempt
             /\ papers_processed_in_this_attempt <= Len(results_list)
    /\ pc = "returned" => count <= Len(results_list)

\* a call whose first query failed has applied the records of its second
C34_Witness ==
    /\ pc = "returned"
    /\ failures > 0
    /\ count = Len(results_list)
    /\ count > 1

(***************************************************************************)
(* The derived columns of papers: the AI summary and review, which the     *)
(* import carries over from its file, and the two embeddings, which        *)
(* generate_embedding_daily.py writes.                                     *)
(***************************************************************************)
\* the first paper of the file with a summary and a review
JsonSummarised ==
    [JsonFirst EXCEPT !.summary_ai = "S", !.detailed_review_ai = "V"]

\* the vector the embedding service returns for a text
Embedded == "vector"

\* UPDATE papers SET title_abstract_embedding = %s,
\*     summary_review_embedding = %s WHERE id = %s, for the papers `ids`
UpdateEmbeddings(table, ids) ==
    { IF p.id \in ids /\ ~Falsy(p.title) /\ p.abstract # <<>>
      THEN [p EXCEPT !.title_abstract_embedding = Embedded,
                     !.summary_review_embedding =
                         IF ~Falsy(p.summary_ai) \/ ~Falsy(p.detailed_review_ai)
                         THEN Embedded ELSE NULL]
      ELSE p : p \in table }

\* generate_and_update_embeddings_for_date: the papers of the date whose
\* texts the service embedded are updated in one transaction
GenerateEmbeddings ==
    \E ids \in SUBSET PaperIds :
        /\ ids # {}
        /\ papers' = UpdateEmbeddings(papers, ids)
        /\ papers' # papers
        /\ UNCHANGED <<categories_meta, authors, paper_authors, paper_categories,
                       history, recording, fetch, process>>

\* the stores the applies start on: what an import of a file leaves
DerivedStores ==
    {import_arxiv_main(EmptyDB, file, NoImportFault) :
        file \in {<<JsonFirst, JsonSecond>>, <<JsonSummarised, JsonSecond>>}}

InitDerived ==
    /\ \E db \in DerivedStores :
          /\ categories_meta = db.categories_meta
          /\ papers = db.papers
          /\ authors = db.authors
          /\ paper_authors = db.paper_authors
          /\ paper_categories = db.paper_categories
    /\ history = <<>>
    /\ recording = TRUE
    /\ InitRun
    /\ InitDriver
    /\ pc = "start"
    /\ faults = 0
    /\ catalog = "any"
    /\ killed = <<>>
    /\ imp = NotImporting
    /\ win = NoWindow
    /\ writers = NoWriters
    /\ stack = NoStack
    /\ pool = NoPool
    /\ mpc = "function"
    /\ argv = NoArgv

NextDerived ==
    \/ InsertPaperData
    \/ GenerateEmbeddings

SpecDerived == InitDerived /\ [][NextDerived]_vars

\* the four derived columns of a papers row
DerivedOf(p) ==
    <<p.summary_ai, p.detailed_review_ai, p.title_abstract_embedding,
      p.summary_review_embedding>>

\* the step is a call of insert_paper_data
Applies ==
    /\ recording'
    /\ Len(history') = Len(history) + 1
    /\ history'[Len(history')].op = "insert_paper_data"

\* every row of a paper other than id is left as it is
OthersUnchanged(id) ==
    /\ {p \in papers : p.id # id} = {p \in papers' : p.id # id}
    /\ {x \in paper_authors : x.paper_id # id}
          = {x \in paper_authors' : x.paper_id # id}
    /\ {x \in paper_categories : x.paper_id # id}
          = {x \in paper_categories' : x.paper_id # id}

\* C35: a call of insert_paper_data leaves the AI summary, the AI review
\* and the two embeddings of every stored paper as they were, the paper of
\* the record included, and leaves every row of every other paper unchanged.
C35_DerivedFieldsFrame ==
    [][Applies =>
          /\ \A p \in papers : \E q \in papers' :
                q.id = p.id /\ DerivedOf(q) = DerivedOf(p)
          /\ history'[Len(history')].rec # <<>>
                => OthersUnchanged(PaperId(history'[Len(history')].rec[1].entry_id))]_vars

\* the revision of a paper that has a summary, a review and both
\* embeddings was applied, next to another paper
C35_Witness ==
    /\ history # <<>>
    /\ LastEntry.res = "True"
    /\ LastEntry.rec # <<>>
    /\ LastEntry.rec[1].meta = Revision
    /\ Cardinality(papers) = 2
    /\ \E p \in papers :
          /\ p.id = PaperId(LastEntry.rec[1].entry_id)
          /\ p.title = Revision.title
          /\ DerivedOf(p) = <<"S", "V", Embedded, Embedded>>

(***************************************************************************)
(* The identifiers of the authors.                                         *)
(***************************************************************************)
\* the step is a call of insert_paper_data that met no fault, and the
\* record and the result of that call
AppliesRecord == Applies /\ history'[Len(history')].rec # <<>>
AppliedRecord == history'[Len(history')].rec[1]
AppliedResult == history'[Len(history')].res

\* C36: in every step of the applies, the pre-population and the import,
\* every authors row stays as it is (the name keeps its identifier) and no
\* name gets a second row; an apply that returns True links its paper to
\* the identifier each of its names already had; and every paper_authors
\* row keeps its paper and its author, the rows of the papers other than
\* the applied one staying exactly as they are.
C36_AuthorIdStability ==
    [][/\ authors \subseteq authors'
       /\ \A a, b \in authors' : a.name = b.name => a = b
       /\ AppliesRecord /\ AppliedResult = "True"
             => \A a \in authors :
                   a.name \in Range(AppliedRecord.authors)
                       => \E x \in paper_authors' :
                             /\ x.paper_id = PaperId(AppliedRecord.entry_id)
                             /\ x.author_id = a.author_id
       /\ \A x \in paper_authors :
             /\ \E y \in paper_authors' :
                   y.paper_id = x.paper_id /\ y.author_id = x.author_id
             /\ AppliesRecord /\ x.paper_id # PaperId(AppliedRecord.entry_id)
                   => x \in paper_authors']_vars

\* two papers name the same author, the second applied after the first,
\* and both point at the one row of the name
C36_Witness ==
    /\ Len(history) = 2
    /\ history[1].res = "True" /\ history[2].res = "True"
    /\ history[1].rec # <<>> /\ history[2].rec # <<>>
    /\ PaperId(history[1].rec[1].entry_id) # PaperId(history[2].rec[1].entry_id)
    /\ \E a \in authors :
          /\ a.name \in Range(history[1].rec[1].authors)
          /\ a.name \in Range(history[2].rec[1].authors)
          /\ \A k \in 1..2 :
                \E x \in paper_authors :
                    /\ x.paper_id = PaperId(history[k].rec[1].entry_id)
                    /\ x.author_id = a.author_id

(***************************************************************************)
(* test/dailyarxivfetcher.py: fetch_papers_by_category, which calls itself *)
(* when the catalog fails.  The catalog holds stack.available records for  *)
(* the query; the k-th of them is the paper k.                             *)
(***************************************************************************)
\* max_total=None: no cap (None and 0 are the falsy values of `if max_total`)
NoCap == 0

max_failures == 3

\* arxiv.Client(page_size=100, ...): the client asks for a page of results
\* before it yields the first result of that page
page_size == 100

\* the frames of fetch_papers_by_category a run holds at most
MaxDepth == 5

\* the calls fetch_daily_papers makes: batch_size and max_total of a tier
TierCalls ==
    { [batch_size |-> 50, max_total |-> 500],
      [batch_size |-> 100, max_total |-> 300],
      [batch_size |-> 100, max_total |-> NoCap] }

\* the numbers of records the catalog can hold for the query
Availables == {0, 120, 520}

\* the frame of a call with the cap max_total, at the top of its try block
Frame(max_total) ==
    [max_total |-> max_total, i |-> 0, batch |-> <<>>, papers |-> <<>>,
     failures |-> 0, at |-> "loop"]

\* what client.results(search) yields: the records of the catalog, up to
\* max_results of them
Yields(max_total) ==
    IF max_total # NoCap /\ max_total < stack.available
    THEN max_total ELSE stack.available

\* max_retry = max(50, max_total // 2) if max_total else 200
max_retry(max_total) ==
    IF max_total # NoCap
    THEN IF max_total \div 2 > 50 THEN max_total \div 2 ELSE 50
    ELSE 200

Top == stack.frames[Len(stack.frames)]

SetTop(frame) ==
    stack' = [stack EXCEPT !.frames[Len(stack.frames)] = frame]

InitRecursive ==
    /\ InitStore
    /\ InitRun
    /\ InitDriver
    /\ pc = "start"
    /\ faults = 0
    /\ catalog = "any"
    /\ killed = <<>>
    /\ imp = NotImporting
    /\ win = NoWindow
    /\ writers = NoWriters
    /\ pool = NoPool
    /\ mpc = "function"
    /\ argv = NoArgv
    /\ \E c \in TierCalls, n \in Availables :
          stack = [NoStack EXCEPT !.pc = "running",
                                  !.batch_size = c.batch_size,
                                  !.cap = c.max_total,
                                  !.available = n,
                                  !.frames = <<Frame(c.max_total)>>,
                                  !.attempts = 1]

RecursiveMoves ==
    UNCHANGED <<store, history, recording, fetch, catalog, killed, imp, win,
                writers, pool, paused, driver>>

\* one pass of `for i, result in enumerate(results)`: the result joins the
\* batch; a full batch, or the result that reaches max_total, moves the
\* batch to papers; the result that reaches max_total ends the loop
NextResult ==
    /\ stack.pc = "running"
    /\ Top.at = "loop"
    /\ Top.i < Yields(Top.max_total)
    /\ LET n == Top.i + 1
           batch == Append(Top.batch, n)
           reached == Top.max_total # NoCap /\ n >= Top.max_total
           full == Len(batch) >= stack.batch_size \/ reached
       IN  SetTop([Top EXCEPT !.i = n,
                              !.batch = IF full THEN <<>> ELSE batch,
                              !.papers = IF full THEN @ \o batch ELSE @,
                              !.at = IF reached THEN "after" ELSE "loop"])
    /\ RecursiveMoves

\* the loop is over: `if batch:` moves the last batch to papers
LastBatch ==
    /\ stack.pc = "running"
    /\ \/ Top.at = "after"
       \/ Top.at = "loop" /\ Top.i = Yields(Top.max_total)
    /\ SetTop([Top EXCEPT !.batch = <<>>, !.papers = @ \o Top.batch,
                          !.at = "return"])
    /\ RecursiveMoves

\* the client fails when it asks the catalog for a page: except Exception
\* counts the failure in the local `failures` of this call, which is 0
\* before, and calls fetch_papers_by_category again with max_retry
PageFails ==
    /\ stack.pc = "running"
    /\ Top.at = "loop"
    /\ Top.i % page_size = 0
    /\ Top.i < Yields(Top.max_total) \/ Top.i = 0
    /\ Len(stack.frames) < MaxDepth
    /\ LET failed_now == Top.failures + 1
       IN  IF failed_now < max_failures
           THEN stack' = [stack EXCEPT
                    !.frames = Append(
                        [@ EXCEPT ![Len(@)] = [Top EXCEPT !.failures = failed_now,
                                                          !.at = "except"]],
                        Frame(max_retry(Top.max_total))),
                    !.attempts = @ + 1]
           ELSE SetTop([Top EXCEPT !.failures = failed_now, !.at = "return"])
    /\ RecursiveMoves

\* return papers: to the caller, which is the call that failed and extends
\* its papers by the retry's and returns too, or the caller of the first call
ReturnPapers ==
    /\ stack.pc = "running"
    /\ Top.at = "return"
    /\ IF Len(stack.frames) = 1
       THEN stack' = [stack EXCEPT !.pc = "returned", !.papers = Top.papers,
                                   !.frames = <<>>]
       ELSE LET caller == stack.frames[Len(stack.frames) - 1]
                rest == SubSeq(stack.frames, 1, Len(stack.frames) - 2)
            IN  stack' = [stack EXCEPT
                    !.frames = Append(rest,
                        [caller EXCEPT !.papers = @ \o Top.papers,
                                       !.at = "return"])]
    /\ RecursiveMoves

NextRecursive ==
    \/ NextResult
    \/ LastBatch
    \/ PageFails
    \/ ReturnPapers

SpecRecursive == InitRecursive /\ [][NextRecursive]_vars

\* C37: one call of fetch_papers_by_category for a category, with the calls
\* it makes of itself, asks the catalog at most max_failures = 3 times.
C37_BoundedRetry == stack.attempts <= max_failures

\* the cap of every call is no larger than the cap of the call that made it
CapsShrink ==
    \A k \in 2..Len(stack.frames) :
        stack.frames[k - 1].max_total # NoCap
            => /\ stack.frames[k].max_total # NoCap
               /\ stack.frames[k].max_total <= stack.frames[k - 1].max_total

\* C38: every call fetch_papers_by_category makes of itself has a cap no
\* larger than the cap of the call that failed, and the list the first call
\* returns holds no more records than its cap and no paper twice.
C38_ShrinkingCap ==
    /\ CapsShrink
    /\ stack.pc = "returned"
          => /\ stack.cap # NoCap => Len(stack.papers) <= stack.cap
             /\ Cardinality(Range(stack.papers)) = Len(stack.papers)

(***************************************************************************)
(* pdf_downloader.py: download_papers_from_json submits one download_pdf   *)
(* per task to a pool of threads; the threads share the output directory.  *)
(* A step of a thread is one call on the network or the file system.       *)
(***************************************************************************)
max_retries == 3

\* response.iter_content(chunk_size=8192)
chunk_size == 8192

\* os.path.getsize(output_path) < 10000: too small to be a paper
MinPdfSize == 10000

\* the tasks one call submits at most
MaxTasks == 2

\* the lengths of the bodies the server can answer with
BodySizes == {MinPdfSize - 1, MinPdfSize, 12000}

DownloadIds == {"2401.00001", "2401.00002"}

\* no file at the path; `made` counts the files the path has named, so that
\* a thread that holds an open file knows whether the path still names it
Absent == [exists |-> FALSE, size |-> 0, made |-> 0]

\* download_tasks of a file of papers: the ids, in the order of the file
TaskLists == {<<"2401.00001">>, <<"2401.00001", "2401.00002">>,
              <<"2401.00001", "2401.00001">>}

\* a task that executor.submit has queued
Queued ==
    [at |-> "queued", attempt |-> 0, body |-> 0, offset |-> 0, made |-> 0,
     result |-> "none"]

InitPool ==
    /\ InitStore
    /\ InitRun
    /\ InitDriver
    /\ pc = "start"
    /\ faults = 0
    /\ catalog = "any"
    /\ killed = <<>>
    /\ imp = NotImporting
    /\ win = NoWindow
    /\ writers = NoWriters
    /\ stack = NoStack
    /\ mpc = "function"
    /\ argv = NoArgv
    /\ \E tasks \in TaskLists :
       \E files \in [DownloadIds -> {Absent, [Absent EXCEPT !.exists = TRUE,
                                                             !.size = 12000]}] :
          /\ Len(tasks) <= MaxTasks
          /\ pool = [NoPool EXCEPT !.pc = "running",
                                   !.download_tasks = tasks,
                                   !.workers = [k \in DOMAIN tasks |-> Queued],
                                   !.files = files]

PoolMoves ==
    UNCHANGED <<store, history, recording, fetch, catalog, killed, imp, win,
                writers, stack, paused, driver>>

\* output_path of the task k, and the file it names
PathOf(k) == pool.download_tasks[k]
FileOf(k) == pool.files[PathOf(k)]

Worker(k) == pool.workers[k]

Thread(k, at) == k \in DOMAIN pool.workers /\ Worker(k).at = at

\* the thread of task k goes on as w, the file of its path becomes f
Step(k, w, f) ==
    /\ pool' = [pool EXCEPT !.workers[k] = w, !.files[PathOf(k)] = f]
    /\ PoolMoves

\* return output_path / return None / an exception leaves download_pdf
Done(k, result) == [Worker(k) EXCEPT !.at = "done", !.result = result]

\* except Exception: the last attempt goes on to the clean-up, any other
\* one sleeps and makes the next attempt
Handler(k) ==
    IF Worker(k).attempt = max_retries - 1
    THEN [Worker(k) EXCEPT !.at = "cleanup"]
    ELSE [Worker(k) EXCEPT !.at = "get", !.attempt = @ + 1]

\* if os.path.exists(output_path) and os.path.getsize(output_path) > 10000
Begins(k) ==
    /\ Thread(k, "queued")
    /\ IF FileOf(k).exists /\ FileOf(k).size > MinPdfSize
       THEN Step(k, Done(k, "path"), FileOf(k))
       ELSE Step(k, [Worker(k) EXCEPT !.at = "get"], FileOf(k))

\* requests.get(...) and raise_for_status() go through
GetResponds(k) ==
    /\ Thread(k, "get")
    /\ \E body \in BodySizes :
          Step(k, [Worker(k) EXCEPT !.at = "open", !.body = body], FileOf(k))

\* ... or raise
GetFails(k) ==
    /\ Thread(k, "get")
    /\ Step(k, Handler(k), FileOf(k))

\* open(output_path, 'wb'): the file of the path is emptied, or made
Opens(k) ==
    /\ Thread(k, "open")
    /\ LET made == IF FileOf(k).exists THEN FileOf(k).made ELSE FileOf(k).made + 1
       IN  Step(k, [Worker(k) EXCEPT !.at = "write", !.offset = 0, !.made = made],
                [exists |-> TRUE, size |-> 0, made |-> made])

\* f.write(chunk), at the position of this thread in its open file
Writes(k) ==
    /\ Thread(k, "write")
    /\ Worker(k).offset < Worker(k).body
    /\ LET left == Worker(k).body - Worker(k).offset
           end  == Worker(k).offset + (IF left < chunk_size THEN left ELSE chunk_size)
           named == FileOf(k).exists /\ FileOf(k).made = Worker(k).made
       IN  Step(k, [Worker(k) EXCEPT !.offset = end],
                IF named /\ end > FileOf(k).size
                THEN [FileOf(k) EXCEPT !.size = end] ELSE FileOf(k))

\* iter_content raises in the middle of the body
StreamFails(k) ==
    /\ Thread(k, "write")
    /\ Worker(k).offset < Worker(k).body
    /\ Step(k, Handler(k), FileOf(k))

\* the body is written and the file closed: os.path.getsize(output_path)
\* raises when the path names no file, a size under 10000 raises
Checks(k) ==
    /\ Thread(k, "write")
    /\ Worker(k).offset = Worker(k).body
    /\ IF FileOf(k).exists /\ ~(FileOf(k).size < MinPdfSize)
       THEN Step(k, Done(k, "path"), FileOf(k))
       ELSE Step(k, Handler(k), FileOf(k))

\* if os.path.exists(output_path): ... return None
CleansUp(k) ==
    /\ Thread(k, "cleanup")
    /\ IF FileOf(k).exists
       THEN Step(k, [Worker(k) EXCEPT !.at = "remove"], FileOf(k))
       ELSE Step(k, Done(k, "None"), FileOf(k))

\* os.remove(output_path); it raises when the path names no file any more
Removes(k) ==
    /\ Thread(k, "remove")
    /\ IF FileOf(k).exists
       THEN Step(k, Done(k, "None"), [FileOf(k) EXCEPT !.exists = FALSE, !.size = 0])
       ELSE Step(k, Done(k, "raised"), FileOf(k))

\* one pass of the loop over as_completed(future_to_id): a future that is
\* done and was not yet taken
Counts(k) ==
    /\ pool.pc = "running"
    /\ Thread(k, "done")
    /\ k \notin pool.counted
    /\ pool' = [pool EXCEPT
           !.counted = @ \cup {k},
           !.successful = IF Worker(k).result = "path" THEN @ + 1 ELSE @,
           !.failed = IF Worker(k).result = "path" THEN @ ELSE Append(@, PathOf(k))]
    /\ PoolMoves

\* the loop is over, the executor is shut down: return successful, failed
PoolReturns ==
    /\ pool.pc = "running"
    /\ pool.counted = DOMAIN pool.download_tasks
    /\ pool' = [pool EXCEPT !.pc = "returned"]
    /\ PoolMoves

NextPool ==
    \/ \E k \in 1..MaxTasks :
          \/ Begins(k)
          \/ GetResponds(k)
          \/ GetFails(k)
          \/ Opens(k)
          \/ Writes(k)
          \/ StreamFails(k)
          \/ Checks(k)
          \/ CleansUp(k)
          \/ Removes(k)
          \/ Counts(k)
    \/ PoolReturns

SpecPool == InitPool /\ [][NextPool]_vars

\* every task was counted once, as successful or as failed
CountedOnce ==
    /\ \A k \in DOMAIN pool.workers : Worker(k).at = "done"
    /\ pool.successful + Len(pool.failed) = Len(pool.download_tasks)
    /\ pool.successful
          = Cardinality({k \in DOMAIN pool.workers : Worker(k).result = "path"})

\* the paper of every task that was counted as successful has its file
SuccessfulHaveFiles ==
    \A k \in DOMAIN pool.workers :
        Worker(k).result = "path"
            => FileOf(k).exists /\ FileOf(k).size >= MinPdfSize

\* C39: when download_papers_from_json returns, every task has finished,
\* successful plus the number of failed is the number of tasks, and every
\* paper counted as successful has a file of at least 10000 bytes at its
\* output path, also when an id was submitted twice.
C39_DownloadAccounting ==
    pool.pc = "returned" => CountedOnce /\ SuccessfulHaveFiles

====
